---- MODULE Spec2Model ----
(***************************************************************************)
(* Rule-based food allergen / medication matching engine.                  *)
(*                                                                         *)
(* Python strings are TLA+ strings; Len, SubSeq and \o act on them         *)
(* character by character, so substring tests, case folding, stripping,    *)
(* regular-expression removal and splitting are computed as the code       *)
(* computes them.  Python lists are sequences, dicts with a significant    *)
(* iteration order are sequences of records, list(set(..)) is a set.       *)
(***************************************************************************)
EXTENDS Integers, Sequences, FiniteSets, TLC

VARIABLES
    allergies,          \* UserProfile.allergies   (list of strings)
    medications,        \* UserProfile.medications (list of strings)
    ingredients,        \* the caller's ingredient list (List[str])
    ingredients_text,   \* the caller's raw ingredient text (str)
    parsed,             \* last result of _parse_ingredients, or NotCalled
    allergy_result,     \* last result of check_allergens, or NotCalled
    analysis,           \* last result of analyze_ingredients, or NotCalled
    med_result,         \* last result of check_interactions, or NotCalled
    custom_interactions,\* the add_custom_interaction calls that changed
                        \* MedicationChecker.known_interactions, in order
    db_file,            \* what is found at data/medications_db.json
    interactions_db,    \* MedicationChecker.interactions_db
    calls,              \* the calls in progress, one per thread
    recommendations,    \* 'recommendations' of the analysis, once generated
    report,             \* last report of _analyze_manual_ingredients, or NotCalled
    consultation_queue, \* DoctorConsultation.consultation_queue
    consultation_history,   \* DoctorConsultation.consultation_history
    consultation_call,  \* the last call on DoctorConsultation and what it returned
    submitted           \* the consultation ids request_consultation has returned

report_vars == <<recommendations, report>>

consultation_vars ==
    <<consultation_queue, consultation_history, consultation_call, submitted>>

vars == <<allergies, medications, ingredients, ingredients_text,
          parsed, allergy_result, analysis, med_result,
          custom_interactions, db_file, interactions_db, calls,
          report_vars, consultation_vars>>

NotCalled == [called |-> FALSE]

-----------------------------------------------------------------------------
(* Bounds of the model.                                                    *)

MaxIngredients == 2     \* longest generated ingredient list
MaxAllergies == 2       \* longest generated allergy list
MaxMedications == 1     \* longest generated medication list
MaxLen == 3             \* longest generated raw text of the parser runs
MaxCustom == 1          \* most add_custom_interaction calls of one run
MaxRequests == 3        \* most request_consultation calls of one run

-----------------------------------------------------------------------------
(* Python str primitives.                                                  *)

Char(s, i) == SubSeq(s, i, i)

\* t in s
In(t, s) == \E i \in 0..(Len(s) - Len(t)) : SubSeq(s, i + 1, i + Len(t)) = t

\* s.startswith(t) at 1-based position i
At(s, i, t) == i + Len(t) - 1 <= Len(s) /\ SubSeq(s, i, i + Len(t) - 1) = t

UpperLetters == "ABCDEFGHIJKLMNOPQRSTUVWXYZ"
LowerLetters == "abcdefghijklmnopqrstuvwxyz"
UpperSet == {Char(UpperLetters, i) : i \in 1..26}
LowerSet == {Char(LowerLetters, i) : i \in 1..26}
DigitSet == {"0", "1", "2", "3", "4", "5", "6", "7", "8", "9"}
Whitespace == {" ", "\t", "\n", "\r", "\f"}
LowerMap == [c \in UpperSet |->
                Char(LowerLetters, CHOOSE i \in 1..26 : Char(UpperLetters, i) = c)]

LowerChar(c) == IF c \in UpperSet THEN LowerMap[c] ELSE c

RECURSIVE LowerFrom(_, _)
LowerFrom(s, i) == IF i > Len(s) THEN "" ELSE LowerChar(Char(s, i)) \o LowerFrom(s, i + 1)

\* s.lower()
Lower(s) == LowerFrom(s, 1)

RECURSIVE LSkip(_, _, _)
\* first position >= i of s whose character is not in chars (Len(s)+1 if none)
LSkip(s, i, chars) ==
    IF i <= Len(s) /\ Char(s, i) \in chars THEN LSkip(s, i + 1, chars) ELSE i

RECURSIVE RSkip(_, _, _)
\* last position <= j of s whose character is not in chars (0 if none)
RSkip(s, j, chars) ==
    IF j >= 1 /\ Char(s, j) \in chars THEN RSkip(s, j - 1, chars) ELSE j

LStripChars(s, chars) == SubSeq(s, LSkip(s, 1, chars), Len(s))
RStripChars(s, chars) == SubSeq(s, 1, RSkip(s, Len(s), chars))

\* s.strip()
Strip(s) == LStripChars(RStripChars(s, Whitespace), Whitespace)

RECURSIVE Find(_, _, _)
\* s.find(t, i): first position >= i where t occurs in s, 0 if none (1-based)
Find(s, t, i) ==
    IF i + Len(t) - 1 > Len(s) THEN 0
    ELSE IF SubSeq(s, i, i + Len(t) - 1) = t THEN i
    ELSE Find(s, t, i + 1)

RECURSIVE Split(_, _)
\* s.split(sep), sep non-empty
Split(s, sep) ==
    LET p == Find(s, sep, 1)
    IN  IF p = 0 THEN <<s>>
        ELSE <<SubSeq(s, 1, p - 1)>> \o Split(SubSeq(s, p + Len(sep), Len(s)), sep)

RECURSIVE Join(_, _)
\* sep.join(parts)
Join(parts, sep) ==
    IF parts = <<>> THEN ""
    ELSE IF Len(parts) = 1 THEN parts[1]
    ELSE parts[1] \o sep \o Join(Tail(parts), sep)

\* item in list
InList(x, list) == \E i \in 1..Len(list) : list[i] = x

\* any(x in s for x in list)
AnyIn(list, s) == \E k \in 1..Len(list) : In(list[k], s)

-----------------------------------------------------------------------------
(* IngredientAnalyzer._parse_ingredients.                                  *)

\* processing_patterns, in the dict's iteration order
processing_patterns ==
    <<"percentage", "parentheses", "brackets", "additives", "preservatives",
      "allergen_warnings">>

preservative_words == <<"preservative", "antioxidant", "emulsifier", "stabilizer">>
warning_phrases == <<"may contain", "contains", "produced in facility">>

\* a word character of the regular expression engine (\w)
IsWord(c) == c \in LowerSet \cup UpperSet \cup DigitSet \cup {"_"}

\* \b\d+\.?\d*%  : length of the match that starts at position i, 0 if none
PercentageLen(s, i) ==
    IF i <= Len(s) /\ Char(s, i) \in DigitSet /\ (i = 1 \/ ~IsWord(Char(s, i - 1)))
    THEN LET d1 == LSkip(s, i, DigitSet)
         IN  IF At(s, d1, "%") THEN d1 - i + 1
             ELSE IF At(s, d1, ".")
                  THEN LET d2 == LSkip(s, d1 + 1, DigitSet)
                       IN  IF At(s, d2, "%") THEN d2 - i + 1 ELSE 0
                  ELSE 0
    ELSE 0

\* \([^)]*\)  and  \[[^\]]*\]
EnclosedLen(s, i, open, close) ==
    IF At(s, i, open)
    THEN LET p == Find(s, close, i + 1) IN IF p = 0 THEN 0 ELSE p - i + 1
    ELSE 0

\* E\d{3,4}  under re.IGNORECASE
AdditiveLen(s, i) ==
    IF i + 3 <= Len(s) /\ Char(s, i) \in {"e", "E"}
       /\ \A k \in 1..3 : Char(s, i + k) \in DigitSet
    THEN IF i + 4 <= Len(s) /\ Char(s, i + 4) \in DigitSet THEN 5 ELSE 4
    ELSE 0

\* (preservative|antioxidant|emulsifier|stabilizer):\s*
PreservativeLen(s, i) ==
    IF \E k \in 1..Len(preservative_words) : At(s, i, preservative_words[k] \o ":")
    THEN LET k == CHOOSE k \in 1..Len(preservative_words) :
                      At(s, i, preservative_words[k] \o ":")
             e == i + Len(preservative_words[k]) + 1
         IN  LSkip(s, e, Whitespace) - i
    ELSE 0

\* (may contain|contains|produced in facility): the first alternative that matches
WarningLen(s, i) ==
    IF \E k \in 1..Len(warning_phrases) : At(s, i, warning_phrases[k])
    THEN LET k == CHOOSE k \in 1..Len(warning_phrases) :
                      /\ At(s, i, warning_phrases[k])
                      /\ \A j \in 1..(k - 1) : ~At(s, i, warning_phrases[j])
         IN  Len(warning_phrases[k])
    ELSE 0

MatchLen(pattern, s, i) ==
    CASE pattern = "percentage" -> PercentageLen(s, i)
      [] pattern = "parentheses" -> EnclosedLen(s, i, "(", ")")
      [] pattern = "brackets" -> EnclosedLen(s, i, "[", "]")
      [] pattern = "additives" -> AdditiveLen(s, i)
      [] pattern = "preservatives" -> PreservativeLen(s, i)
      [] pattern = "allergen_warnings" -> WarningLen(s, i)

RECURSIVE ReSubFrom(_, _, _)
ReSubFrom(pattern, s, i) ==
    IF i > Len(s) THEN ""
    ELSE LET n == MatchLen(pattern, s, i)
         IN  IF n > 0 THEN ReSubFrom(pattern, s, i + n)
             ELSE Char(s, i) \o ReSubFrom(pattern, s, i + 1)

\* re.sub(pattern, '', s): leftmost non-overlapping matches removed
ReSub(pattern, s) == ReSubFrom(pattern, s, 1)

RECURSIVE RemovePatterns(_, _)
\* for pattern_name, pattern in processing_patterns.items(): text = re.sub(...)
RemovePatterns(text, k) ==
    IF k > Len(processing_patterns) THEN text
    ELSE RemovePatterns(ReSub(processing_patterns[k], text), k + 1)

\* separators = [',', ';', '\\n', '\\r', '|']: the second and third are the
\* two-character strings backslash-n and backslash-r
separators == <<",", ";", "\\n", "\\r", "|">>

RECURSIVE StripAll(_)
StripAll(parts) ==
    IF parts = <<>> THEN <<>> ELSE <<Strip(Head(parts))>> \o StripAll(Tail(parts))

RECURSIVE SplitEach(_, _)
\* new_ingredients.extend([part.strip() for part in ingredient.split(separator)])
SplitEach(parts, sep) ==
    IF parts = <<>> THEN <<>>
    ELSE StripAll(Split(Head(parts), sep)) \o SplitEach(Tail(parts), sep)

RECURSIVE SplitSeparators(_, _)
SplitSeparators(parts, k) ==
    IF k > Len(separators) THEN parts
    ELSE SplitSeparators(SplitEach(parts, separators[k]), k + 1)

LeadingJunk == DigitSet \cup {".", "-"} \cup Whitespace
TrailingPunctuation == {".", ",", ";", ":"}

\* the body of the cleaning loop for one ingredient: <<>> or <<cleaned>>
CleanIngredient(raw) ==
    LET ingredient == Strip(raw)
    IN  IF ingredient # "" /\ Len(ingredient) > 1
        THEN LET noLead == LStripChars(ingredient, LeadingJunk)
                 cleaned == RStripChars(noLead, TrailingPunctuation)
             IN  IF cleaned # "" THEN <<cleaned>> ELSE <<>>
        ELSE <<>>

RECURSIVE CleanAll(_)
CleanAll(parts) ==
    IF parts = <<>> THEN <<>> ELSE CleanIngredient(Head(parts)) \o CleanAll(Tail(parts))

\* _parse_ingredients(ingredients_text)
parse_ingredients(text) ==
    IF text = "" \/ Strip(text) = "" THEN <<>>
    ELSE CleanAll(SplitSeparators(<<RemovePatterns(Strip(Lower(text)), 1)>>, 1))

-----------------------------------------------------------------------------
(* AllergyChecker: the knowledge base.                                     *)

\* self.allergen_database, in the dict's iteration order
allergen_database ==
    << [category |-> "dairy", allergens |->
           <<"milk", "cheese", "butter", "cream", "yogurt", "lactose",
             "casein", "whey", "lactoglobulin", "lactalbumin">>],
       [category |-> "eggs", allergens |->
           <<"egg", "eggs", "albumin", "globulin", "lecithin",
             "lysozyme", "mayonnaise", "meringue", "ovalbumin">>],
       [category |-> "peanuts", allergens |->
           <<"peanut", "peanuts", "groundnut", "ground nut",
             "arachis oil", "peanut oil", "peanut butter">>],
       [category |-> "tree_nuts", allergens |->
           <<"almond", "brazil nut", "cashew", "hazelnut", "pecan",
             "pistachio", "walnut", "macadamia", "pine nut", "chestnut">>],
       [category |-> "soy", allergens |->
           <<"soy", "soya", "soybean", "tofu", "miso", "tempeh",
             "soy sauce", "lecithin", "edamame">>],
       [category |-> "wheat", allergens |->
           <<"wheat", "flour", "gluten", "semolina", "spelt",
             "kamut", "bulgur", "couscous", "seitan">>],
       [category |-> "fish", allergens |->
           <<"fish", "salmon", "tuna", "cod", "sardine", "anchovy",
             "mackerel", "bass", "trout", "fish sauce">>],
       [category |-> "shellfish", allergens |->
           <<"crab", "lobster", "shrimp", "prawn", "scallop",
             "oyster", "mussel", "clam", "crayfish", "langoustine">>],
       [category |-> "sesame", allergens |->
           <<"sesame", "tahini", "sesame oil", "sesame seed", "gomasio">>] >>

\* self.severity_levels, in the dict's iteration order
severity_levels ==
    << [allergen |-> "peanuts", severity |-> "high"],
       [allergen |-> "tree_nuts", severity |-> "high"],
       [allergen |-> "shellfish", severity |-> "high"],
       [allergen |-> "fish", severity |-> "moderate"],
       [allergen |-> "eggs", severity |-> "moderate"],
       [allergen |-> "dairy", severity |-> "moderate"],
       [allergen |-> "soy", severity |-> "low"],
       [allergen |-> "wheat", severity |-> "moderate"],
       [allergen |-> "sesame", severity |-> "moderate"] >>

\* self.cross_contamination_risks
cross_contamination_risks ==
    << [category |-> "peanuts", related |-> <<"tree_nuts", "soy">>],
       [category |-> "tree_nuts", related |-> <<"peanuts">>],
       [category |-> "dairy", related |-> <<"eggs">>],
       [category |-> "wheat", related |-> <<"oats", "barley", "rye">>] >>

\* self.allergen_database.get(category, [])
allergens_of(category) ==
    IF \E k \in 1..Len(allergen_database) : allergen_database[k].category = category
    THEN allergen_database[CHOOSE k \in 1..Len(allergen_database) :
                               allergen_database[k].category = category].allergens
    ELSE <<>>

\* self.cross_contamination_risks.get(category, [])
related_of(category) ==
    IF \E k \in 1..Len(cross_contamination_risks) :
           cross_contamination_risks[k].category = category
    THEN cross_contamination_risks[CHOOSE k \in 1..Len(cross_contamination_risks) :
                               cross_contamination_risks[k].category = category].related
    ELSE <<>>

\* any(a in x or x in a for x in list)
AnyBidirectional(a, list) == \E k \in 1..Len(list) : In(a, list[k]) \/ In(list[k], a)

None == "None"

\* the loop that finds allergen_category: the first category one of whose
\* allergens contains, or is contained in, the allergy; None if there is none
find_category(allergy_lower) ==
    IF \E k \in 1..Len(allergen_database) :
           AnyBidirectional(allergy_lower, allergen_database[k].allergens)
    THEN allergen_database[CHOOSE k \in 1..Len(allergen_database) :
             /\ AnyBidirectional(allergy_lower, allergen_database[k].allergens)
             /\ \A j \in 1..(k - 1) :
                    ~AnyBidirectional(allergy_lower, allergen_database[j].allergens)].category
    ELSE None

RECURSIVE direct_matching(_, _)
\* "Direct matching": every ingredient that contains, or is contained in, the allergy
direct_matching(user_allergy_lower, ings) ==
    IF ings = <<>> THEN <<>>
    ELSE (IF In(user_allergy_lower, Head(ings)) \/ In(Head(ings), user_allergy_lower)
          THEN <<Head(ings)>> ELSE <<>>) \o direct_matching(user_allergy_lower, Tail(ings))

RECURSIVE category_matching(_, _, _)
\* "Check ingredients against allergen category": appends to matches every
\* ingredient that hits an allergen of the category and is not yet in matches
category_matching(matches, ings, category_allergens) ==
    IF ings = <<>> THEN matches
    ELSE LET ingredient == Head(ings)
             hit == AnyBidirectional(ingredient, category_allergens)
         IN  category_matching(
                 IF hit /\ ~InList(ingredient, matches)
                 THEN Append(matches, ingredient) ELSE matches,
                 Tail(ings), category_allergens)

\* _find_allergen_matches without its database matching: the direct test only
find_allergen_matches_direct_only(user_allergy, ings) ==
    direct_matching(Strip(Lower(user_allergy)), ings)

\* _find_allergen_matches(user_allergy, ingredients)
find_allergen_matches(user_allergy, ings) ==
    LET user_allergy_lower == Strip(Lower(user_allergy))
        matches == direct_matching(user_allergy_lower, ings)
        allergen_category == find_category(user_allergy_lower)
    IN  IF allergen_category # None
        THEN category_matching(matches, ings, allergens_of(allergen_category))
        ELSE matches

\* the condition of the loop of _get_allergen_severity for one severity entry
severity_entry_matches(allergen_lower, severity_allergen) ==
    \/ In(allergen_lower, severity_allergen)
    \/ In(severity_allergen, allergen_lower)
    \/ AnyBidirectional(allergen_lower, allergens_of(severity_allergen))

\* _get_allergen_severity(allergen)
get_allergen_severity(allergen) ==
    LET allergen_lower == Strip(Lower(allergen))
    IN  IF \E k \in 1..Len(severity_levels) :
               severity_entry_matches(allergen_lower, severity_levels[k].allergen)
        THEN severity_levels[CHOOSE k \in 1..Len(severity_levels) :
                 /\ severity_entry_matches(allergen_lower, severity_levels[k].allergen)
                 /\ \A j \in 1..(k - 1) :
                        ~severity_entry_matches(allergen_lower, severity_levels[j].allergen)
             ].severity
        ELSE "moderate"

\* the inner loop of _check_cross_contamination leaving after the first ingredient
risk_category_hit_first_only(risk_category, ings) ==
    /\ ings # <<>>
    /\ \E k \in 1..Len(allergens_of(risk_category)) :
           In(allergens_of(risk_category)[k], ings[1])

\* any(risk_allergen in ingredient for risk_allergen in risk_allergens), for any ingredient
risk_category_hit(risk_category, ings) ==
    \E i \in 1..Len(ings) :
        \E k \in 1..Len(allergens_of(risk_category)) :
            In(allergens_of(risk_category)[k], ings[i])

RECURSIVE cross_risks_of(_, _)
cross_risks_of(risk_categories, ings) ==
    IF risk_categories = <<>> THEN <<>>
    ELSE (IF risk_category_hit(Head(risk_categories), ings)
          THEN <<"Cross-contamination risk with " \o Head(risk_categories)>>
          ELSE <<>>) \o cross_risks_of(Tail(risk_categories), ings)

\* _check_cross_contamination(user_allergy, ingredients)
check_cross_contamination(user_allergy, ings) ==
    LET allergen_lower == Strip(Lower(user_allergy))
        user_allergen_category == find_category(allergen_lower)
    IN  IF user_allergen_category = None THEN <<>>
        ELSE cross_risks_of(related_of(user_allergen_category), ings)

\* _calculate_overall_risk with the moderate branch tested before the high one
calculate_overall_risk_moderate_first(high_risk, moderate_risk, low_risk) ==
    IF moderate_risk # <<>> THEN "moderate"
    ELSE IF high_risk # <<>> THEN "high"
    ELSE IF low_risk # <<>> THEN "low"
    ELSE "safe"

\* _calculate_overall_risk that takes a low-risk allergen for no risk
calculate_overall_risk_low_as_safe(high_risk, moderate_risk, low_risk) ==
    IF high_risk # <<>> THEN "high"
    ELSE IF moderate_risk # <<>> THEN "moderate"
    ELSE "safe"

\* _calculate_overall_risk(high_risk, moderate_risk, low_risk)
calculate_overall_risk(high_risk, moderate_risk, low_risk) ==
    IF high_risk # <<>> THEN "high"
    ELSE IF moderate_risk # <<>> THEN "moderate"
    ELSE IF low_risk # <<>> THEN "low"
    ELSE "safe"

RECURSIVE NormalizeAll(_)
\* [ing.lower().strip() for ing in ingredients]
NormalizeAll(ings) ==
    IF ings = <<>> THEN <<>>
    ELSE <<Strip(Lower(Head(ings)))>> \o NormalizeAll(Tail(ings))

SeqToSet(list) == {list[i] : i \in 1..Len(list)}

\* the accumulators of check_allergens before the loop over the allergies
EmptyAccumulator ==
    [detected_allergens |-> <<>>, high_risk_allergens |-> <<>>,
     moderate_risk_allergens |-> <<>>, low_risk_allergens |-> <<>>,
     cross_contamination_risks |-> <<>>, allergen_matches |-> <<>>]

\* the loop body with the matches of all allergies collected in one list
check_one_allergy_accumulating(acc, user_allergy, normalized_ingredients) ==
    LET allergen_matches == find_allergen_matches(user_allergy, normalized_ingredients)
        severity == get_allergen_severity(user_allergy)
    IN  IF allergen_matches # <<>>
        THEN [detected_allergens |-> Append(acc.detected_allergens, user_allergy),
              high_risk_allergens |->
                  IF severity = "high" THEN Append(acc.high_risk_allergens, user_allergy)
                  ELSE acc.high_risk_allergens,
              moderate_risk_allergens |->
                  IF severity = "moderate"
                  THEN Append(acc.moderate_risk_allergens, user_allergy)
                  ELSE acc.moderate_risk_allergens,
              low_risk_allergens |->
                  IF severity \notin {"high", "moderate"}
                  THEN Append(acc.low_risk_allergens, user_allergy)
                  ELSE acc.low_risk_allergens,
              cross_contamination_risks |->
                  acc.cross_contamination_risks
                      \o check_cross_contamination(user_allergy, normalized_ingredients),
              allergen_matches |-> acc.allergen_matches \o allergen_matches]
        ELSE acc

\* one iteration of "for user_allergy in user_profile.allergies"
check_one_allergy(acc, user_allergy, normalized_ingredients) ==
    LET allergen_matches == find_allergen_matches(user_allergy, normalized_ingredients)
        severity == get_allergen_severity(user_allergy)
    IN  IF allergen_matches # <<>>
        THEN [detected_allergens |-> Append(acc.detected_allergens, user_allergy),
              high_risk_allergens |->
                  IF severity = "high" THEN Append(acc.high_risk_allergens, user_allergy)
                  ELSE acc.high_risk_allergens,
              moderate_risk_allergens |->
                  IF severity = "moderate"
                  THEN Append(acc.moderate_risk_allergens, user_allergy)
                  ELSE acc.moderate_risk_allergens,
              low_risk_allergens |->
                  IF severity \notin {"high", "moderate"}
                  THEN Append(acc.low_risk_allergens, user_allergy)
                  ELSE acc.low_risk_allergens,
              cross_contamination_risks |->
                  acc.cross_contamination_risks
                      \o check_cross_contamination(user_allergy, normalized_ingredients),
              allergen_matches |-> allergen_matches]
        ELSE [acc EXCEPT !.allergen_matches = allergen_matches]

RECURSIVE check_allergies_loop(_, _, _)
check_allergies_loop(acc, user_allergies, normalized_ingredients) ==
    IF user_allergies = <<>> THEN acc
    ELSE check_allergies_loop(
             check_one_allergy(acc, Head(user_allergies), normalized_ingredients),
             Tail(user_allergies), normalized_ingredients)

\* check_allergens(ingredients, user_profile); the profile is its allergy list
check_allergens(ings, user_allergies) ==
    IF user_allergies = <<>>
    THEN [called |-> TRUE,
          risk_level |-> "unknown",
          detected_allergens |-> <<>>,
          high_risk_allergens |-> <<>>,
          moderate_risk_allergens |-> <<>>,
          low_risk_allergens |-> <<>>,
          cross_contamination_risks |-> {}]
    ELSE LET acc == check_allergies_loop(EmptyAccumulator, user_allergies,
                                         NormalizeAll(ings))
         IN  [called |-> TRUE,
              risk_level |-> calculate_overall_risk(acc.high_risk_allergens,
                                 acc.moderate_risk_allergens, acc.low_risk_allergens),
              detected_allergens |-> acc.detected_allergens,
              high_risk_allergens |-> acc.high_risk_allergens,
              moderate_risk_allergens |-> acc.moderate_risk_allergens,
              low_risk_allergens |-> acc.low_risk_allergens,
              cross_contamination_risks |-> SeqToSet(acc.cross_contamination_risks),
              ingredient_matches |-> acc.allergen_matches]

-----------------------------------------------------------------------------
(* IngredientAnalyzer: hidden allergens and analyze_ingredients.           *)

\* hidden_sources, in the dict's iteration order
hidden_sources ==
    << [category |-> "dairy", hidden_names |->
           <<"casein", "whey", "lactose", "lactoglobulin", "lactalbumin",
             "ghee", "butter flavor", "cream flavor", "milk solids">>],
       [category |-> "egg", hidden_names |->
           <<"albumin", "globulin", "lecithin", "lysozyme", "ovalbumin",
             "egg whites", "egg substitute">>],
       [category |-> "soy", hidden_names |->
           <<"lecithin", "tocopherol", "vegetable protein", "vegetable oil",
             "natural flavor">>],
       [category |-> "wheat", hidden_names |->
           <<"modified food starch", "vegetable protein", "malt",
             "dextrin", "maltodextrin", "starch">>],
       [category |-> "peanuts", hidden_names |->
           <<"arachis oil", "groundnut oil", "beer nuts", "monkey nuts">>],
       [category |-> "tree_nuts", hidden_names |->
           <<"natural flavoring", "marzipan", "nougat", "praline">>] >>

\* the hidden-allergen labels of one allergy under one category of hidden_sources
hidden_hits(entry, ings) ==
    {ings[i] \o " (hidden " \o entry.category \o ")" :
        i \in {j \in 1..Len(ings) :
                  \E k \in 1..Len(entry.hidden_names) :
                      In(entry.hidden_names[k], Lower(ings[j]))}}

\* the categories of hidden_sources an allergy is looked up under
hidden_categories(user_allergy) ==
    LET allergy_lower == Lower(user_allergy)
    IN  {k \in 1..Len(hidden_sources) :
            \/ In(hidden_sources[k].category, allergy_lower)
            \/ In(allergy_lower, hidden_sources[k].category)}

\* _detect_hidden_allergens(ingredients, user_profile): list(set(hidden_allergens))
detect_hidden_allergens(ings, user_allergies) ==
    UNION {hidden_hits(hidden_sources[k], ings) :
              k \in UNION {hidden_categories(user_allergies[a]) :
                              a \in 1..Len(user_allergies)}}

\* the result of analyze_ingredients when the text parses to no ingredient
no_ingredients_found ==
    [called |-> TRUE,
     error |-> "No ingredients found to analyze",
     risk_level |-> "unknown"]

\* comprehensive_analysis: the allergy analysis with the other analyses added
comprehensive_analysis(allergy_analysis, hidden_allergens, ings) ==
    [hidden_allergens |-> hidden_allergens,
     processed_ingredients |-> ings,
     total_ingredients |-> Len(ings)]
    @@ allergy_analysis

\* analyze_ingredients(ingredients_text, user_profile)
analyze_ingredients(text, user_allergies) ==
    LET ings == parse_ingredients(text)
    IN  IF ings = <<>>
        THEN no_ingredients_found
        ELSE comprehensive_analysis(check_allergens(ings, user_allergies),
                                    detect_hidden_allergens(ings, user_allergies),
                                    ings)

-----------------------------------------------------------------------------
(* Recommendations.  The pictograph that starts a line of the source is    *)
(* left out of its text, and the bullet of an item is written "-".         *)

\* the fixed lines _generate_recommendations starts with, per risk level
template_of(risk_level) ==
    CASE risk_level = "high" ->
             <<"DO NOT CONSUME this product",
               "This product contains high-risk allergens for you",
               "Keep your emergency medication (EpiPen) readily available",
               "Consult with your doctor if you have questions">>
      [] risk_level = "moderate" ->
             <<"CAUTION: This product may trigger your allergies",
               "Read ingredients carefully before consuming",
               "Have your allergy medication available",
               "Consider consulting with your healthcare provider">>
      [] risk_level = "low" ->
             <<"Low risk detected - proceed with caution",
               "Monitor for any unusual reactions",
               "Keep allergy medication nearby as precaution">>
      [] OTHER ->
             <<"No known allergens detected",
               "This product appears safe for your profile",
               "Always verify ingredients as formulations may change">>

RECURSIVE Bulleted(_, _)
\* [f"{bullet}{x}" for x in list]
Bulleted(bullet, list) ==
    IF list = <<>> THEN <<>>
    ELSE <<bullet \o Head(list)>> \o Bulleted(bullet, Tail(list))

\* _generate_recommendations(risk_level, detected_allergens, cross_contamination_risks)
generate_recommendations(risk_level, detected_allergens, cross_risks) ==
    template_of(risk_level)
    \o (IF cross_risks # <<>>
        THEN <<"Cross-contamination risks detected">> \o Bulleted("- ", cross_risks)
        ELSE <<>>)
    \o (IF detected_allergens # <<>>
        THEN <<"Detected allergens: " \o Join(detected_allergens, ", ")>>
        ELSE <<>>)

\* 'recommendations' of the result of check_allergens(ingredients, user_profile)
allergen_recommendations(ings, user_allergies) ==
    IF user_allergies = <<>> THEN <<"No allergy profile available">>
    ELSE LET acc == check_allergies_loop(EmptyAccumulator, user_allergies,
                                         NormalizeAll(ings))
         IN  generate_recommendations(
                 calculate_overall_risk(acc.high_risk_allergens,
                     acc.moderate_risk_allergens, acc.low_risk_allergens),
                 acc.detected_allergens, acc.cross_contamination_risks)

artificial_indicators ==
    <<"artificial", "synthetic", "modified", "hydrolyzed",
      "monosodium glutamate", "msg", "high fructose corn syrup">>
natural_indicators == <<"natural", "organic", "whole", "fresh", "pure", "raw">>
preservative_indicators ==
    <<"preservative", "sodium benzoate", "potassium sorbate",
      "bht", "bha", "tbhq", "sulfite">>
additive_indicators ==
    <<"color", "coloring", "dye", "flavor", "flavoring",
      "emulsifier", "stabilizer", "thickener">>
whole_foods ==
    <<"water", "salt", "sugar", "flour", "oil", "milk", "egg",
      "meat", "chicken", "beef", "fish", "vegetable", "fruit">>

\* what one ingredient adds to quality_score
quality_points(ingredient) ==
    LET ingredient_lower == Lower(ingredient)
    IN  (IF AnyIn(artificial_indicators, ingredient_lower) THEN -5
         ELSE IF AnyIn(natural_indicators, ingredient_lower) THEN 3 ELSE 0)
        + (IF AnyIn(preservative_indicators, ingredient_lower) THEN -2 ELSE 0)
        + (IF AnyIn(additive_indicators, ingredient_lower) THEN -1 ELSE 0)
        + (IF AnyIn(whole_foods, ingredient_lower) THEN 1 ELSE 0)

RECURSIVE quality_score(_)
quality_score(ings) ==
    IF ings = <<>> THEN 0 ELSE quality_points(Head(ings)) + quality_score(Tail(ings))

\* 'quality_category' of _analyze_ingredient_quality(ingredients)
quality_category(ings) ==
    LET score == quality_score(ings)
    IN  IF score >= 10 THEN "excellent"
        ELSE IF score >= 5 THEN "good"
        ELSE IF score >= 0 THEN "fair"
        ELSE IF score >= -5 THEN "poor"
        ELSE "very_poor"

high_sodium == <<"salt", "sodium", "monosodium glutamate", "msg", "baking soda">>
high_sugar == <<"sugar", "glucose", "fructose", "corn syrup", "honey", "molasses">>
healthy_foods == <<"whole grain", "vegetable", "fruit", "nuts", "seeds", "beans">>

\* the ingredients of _analyze_nutritional_content that hold one of the words
Holding(ings, words) == SelectSeq(ings, LAMBDA x : AnyIn(words, Lower(x)))

\* the alternatives table of get_safe_alternatives, in the dict's iteration order
alternatives ==
    << [category |-> "dairy",
        alts |-> {"Almond milk", "Oat milk", "Coconut milk", "Soy milk"}],
       [category |-> "eggs",
        alts |-> {"Flax eggs", "Chia eggs", "Applesauce", "Aquafaba"}],
       [category |-> "wheat",
        alts |-> {"Rice flour", "Almond flour", "Coconut flour", "Quinoa"}],
       [category |-> "nuts",
        alts |-> {"Sunflower seed butter", "Pumpkin seed butter", "Tahini"}],
       [category |-> "soy",
        alts |-> {"Coconut aminos", "Pea protein", "Hemp protein"}] >>

\* get_safe_alternatives(detected_allergens): list(set(suggested_alternatives))
get_safe_alternatives(detected_allergens) ==
    UNION {alternatives[k].alts :
              k \in {j \in 1..Len(alternatives) :
                        \E a \in 1..Len(detected_allergens) :
                            \/ In(alternatives[j].category, Lower(detected_allergens[a]))
                            \/ In(Lower(detected_allergens[a]), alternatives[j].category)}}

RECURSIVE FirstOf(_, _)
\* the values list(set(..))[:n] can take for a set: the set's iteration order is
\* not fixed by the language, so any n distinct elements in any order
FirstOf(S, n) ==
    IF S = {} \/ n = 0 THEN {<<>>}
    ELSE UNION {{<<x>> \o rest : rest \in FirstOf(S \ {x}, n - 1)} : x \in S}

\* list[:n]
FirstN(list, n) == SubSeq(list, 1, IF Len(list) < n THEN Len(list) ELSE n)

\* _generate_enhanced_recommendations(analysis, user_profile); hidden_list and
\* alternatives_list are the first three items of the two list(set(..)) lists
generate_enhanced_recommendations(base, ings, risk_level, hidden_list, alternatives_list) ==
    LET category == quality_category(ings)
        healthy == Holding(ings, healthy_foods)
    IN  base
        \o (CASE category = "very_poor" ->
                     <<"This product contains many artificial and processed ingredients",
                       "Consider looking for more natural alternatives">>
              [] category = "poor" ->
                     <<"This product contains several artificial ingredients",
                       "Look for products with fewer additives">>
              [] category = "excellent" ->
                     <<"This product contains mostly natural, wholesome ingredients">>
              [] OTHER -> <<>>)
        \o (IF Holding(ings, high_sodium) # <<>>
            THEN <<"High sodium content detected - monitor salt intake">> ELSE <<>>)
        \o (IF Holding(ings, high_sugar) # <<>>
            THEN <<"High sugar content detected - consume in moderation">> ELSE <<>>)
        \o (IF healthy # <<>>
            THEN <<"Contains beneficial ingredients: " \o Join(FirstN(healthy, 3), ", ")>>
            ELSE <<>>)
        \o (IF hidden_list # <<>>
            THEN <<"Hidden allergens detected:">> \o Bulleted("  - ", hidden_list)
            ELSE <<>>)
        \o (IF risk_level \in {"high", "moderate"} /\ alternatives_list # <<>>
            THEN <<"Consider these alternatives:">>
                     \o Bulleted("  - ", alternatives_list)
            ELSE <<>>)

\* the values 'recommendations' of analyze_ingredients(text, user_profile) can take
analysis_recommendations(text, user_allergies) ==
    LET ings == parse_ingredients(text)
        result == check_allergens(ings, user_allergies)
    IN  IF ings = <<>> THEN {<<"Please provide ingredient information">>}
        ELSE {generate_enhanced_recommendations(
                  allergen_recommendations(ings, user_allergies), ings,
                  result.risk_level, hidden_list, alternatives_list) :
                  hidden_list \in FirstOf(detect_hidden_allergens(ings, user_allergies), 3),
                  alternatives_list \in
                      FirstOf(get_safe_alternatives(result.detected_allergens), 3)}

-----------------------------------------------------------------------------
(* MedicationChecker.                                                      *)

\* self.known_interactions as __init__ builds it, in the dict's iteration order;
\* timing is "" where the entry has no 'timing' key
known_interactions ==
    << [name |-> "warfarin",
        avoid |-> <<"vitamin k", "green leafy vegetables", "broccoli", "spinach", "kale">>,
        caution |-> <<"alcohol", "cranberry juice", "grapefruit">>,
        timing |-> "", severity |-> "high"],
       [name |-> "aspirin",
        avoid |-> <<"alcohol">>,
        caution |-> <<"vitamin e", "omega-3", "fish oil", "garlic supplements">>,
        timing |-> "", severity |-> "moderate"],
       [name |-> "metformin",
        avoid |-> <<"excessive alcohol">>,
        caution |-> <<"high carbohydrate foods", "sugary drinks">>,
        timing |-> "", severity |-> "moderate"],
       [name |-> "lisinopril",
        avoid |-> <<"potassium supplements", "salt substitutes">>,
        caution |-> <<"bananas", "oranges", "potatoes", "high potassium foods">>,
        timing |-> "", severity |-> "moderate"],
       [name |-> "simvastatin",
        avoid |-> <<"grapefruit", "grapefruit juice">>,
        caution |-> <<"red yeast rice", "niacin", "alcohol">>,
        timing |-> "", severity |-> "high"],
       [name |-> "digoxin",
        avoid |-> <<"licorice", "st johns wort">>,
        caution |-> <<"high fiber foods", "bran">>,
        timing |-> "", severity |-> "high"],
       [name |-> "levothyroxine",
        avoid |-> <<"soy products", "coffee", "calcium supplements">>,
        caution |-> <<"iron supplements", "high fiber foods">>,
        timing |-> "take 30-60 minutes before eating", severity |-> "moderate"],
       [name |-> "monoamine oxidase inhibitor",
        avoid |-> <<"aged cheeses", "wine", "beer", "soy sauce", "pickled foods",
                    "smoked meats">>,
        caution |-> <<"chocolate", "caffeine", "fava beans">>,
        timing |-> "", severity |-> "high"],
       [name |-> "tetracycline",
        avoid |-> <<"dairy products", "calcium", "iron supplements">>,
        caution |-> <<"antacids", "aluminum", "magnesium">>,
        timing |-> "take 1 hour before or 2 hours after meals", severity |-> "moderate"],
       [name |-> "phenytoin",
        avoid |-> <<"alcohol">>,
        caution |-> <<"folic acid supplements", "tube feeding">>,
        timing |-> "", severity |-> "moderate"] >>

\* self.medication_categories, in the dict's iteration order
medication_categories ==
    << [category |-> "blood_thinners",
        medications |-> <<"warfarin", "heparin", "coumadin", "eliquis", "xarelto">>,
        food_interactions |-> <<"vitamin k rich foods", "alcohol", "cranberry", "grapefruit">>,
        severity |-> "high"],
       [category |-> "antibiotics",
        medications |-> <<"tetracycline", "ciprofloxacin", "amoxicillin", "penicillin">>,
        food_interactions |-> <<"dairy products", "calcium", "iron">>,
        severity |-> "moderate"],
       [category |-> "antidepressants",
        medications |-> <<"ssri", "maoi", "tricyclic", "sertraline", "fluoxetine">>,
        food_interactions |-> <<"alcohol", "aged foods", "tyramine rich foods">>,
        severity |-> "high"],
       [category |-> "heart_medications",
        medications |-> <<"digoxin", "beta blockers", "ace inhibitors">>,
        food_interactions |-> <<"potassium", "sodium", "alcohol">>,
        severity |-> "moderate"],
       [category |-> "diabetes_medications",
        medications |-> <<"metformin", "insulin", "sulfonylureas">>,
        food_interactions |-> <<"alcohol", "high sugar foods", "carbohydrates">>,
        severity |-> "moderate"] >>

\* the aliases table of _check_ingredient_aliases, in the dict's iteration order
ingredient_alias_table ==
    << [group |-> "vitamin k", aliases |-> <<"phylloquinone", "menaquinone", "green leafy">>],
       [group |-> "grapefruit", aliases |-> <<"citrus paradisi", "grapefruit juice">>],
       [group |-> "dairy", aliases |-> <<"milk", "cheese", "yogurt", "cream", "butter">>],
       [group |-> "alcohol", aliases |->
           <<"ethanol", "wine", "beer", "spirits", "ethyl alcohol">>],
       [group |-> "caffeine", aliases |-> <<"coffee", "tea", "cola", "energy drink">>],
       [group |-> "tyramine", aliases |-> <<"aged cheese", "wine", "soy sauce", "pickled">>],
       [group |-> "potassium", aliases |->
           <<"banana", "orange", "potato", "salt substitute">>] >>

\* the aliases table of _get_medication_aliases
medication_alias_table ==
    << [name |-> "warfarin", aliases |-> <<"coumadin", "jantoven">>],
       [name |-> "aspirin", aliases |-> <<"acetylsalicylic acid", "asa">>],
       [name |-> "metformin", aliases |-> <<"glucophage", "fortamet">>],
       [name |-> "lisinopril", aliases |-> <<"prinivil", "zestril">>],
       [name |-> "simvastatin", aliases |-> <<"zocor">>],
       [name |-> "levothyroxine", aliases |-> <<"synthroid", "levoxyl", "thyroid hormone">>],
       [name |-> "digoxin", aliases |-> <<"lanoxin", "digitalis">>] >>

\* _get_medication_aliases(medication)
get_medication_aliases(medication) ==
    IF \E k \in 1..Len(medication_alias_table) : medication_alias_table[k].name = medication
    THEN medication_alias_table[CHOOSE k \in 1..Len(medication_alias_table) :
                                    medication_alias_table[k].name = medication].aliases
    ELSE <<>>

\* _check_ingredient_aliases(ingredient, target): the first alias group that
\* contains, or is contained in, the target decides
check_ingredient_aliases(ingredient, target) ==
    LET groupHit(k) == \/ In(ingredient_alias_table[k].group, target)
                       \/ In(target, ingredient_alias_table[k].group)
    IN  IF \E k \in 1..Len(ingredient_alias_table) : groupHit(k)
        THEN AnyIn(ingredient_alias_table[CHOOSE k \in 1..Len(ingredient_alias_table) :
                       groupHit(k) /\ \A j \in 1..(k - 1) : ~groupHit(j)].aliases,
                   ingredient)
        ELSE FALSE

RECURSIVE SplitWordsFrom(_, _)
SplitWordsFrom(s, i) ==
    LET b == LSkip(s, i, Whitespace)
    IN  IF b > Len(s) THEN <<>>
        ELSE LET e == CHOOSE e \in b..Len(s) :
                          /\ \A j \in b..e : Char(s, j) \notin Whitespace
                          /\ (e = Len(s) \/ Char(s, e + 1) \in Whitespace)
             IN  <<SubSeq(s, b, e)>> \o SplitWordsFrom(s, e + 1)

\* s.split(): the whitespace-separated words of s
SplitWords(s) == SplitWordsFrom(s, 1)

\* _ingredient_contains(ingredients, target)
ingredient_contains(ings, target) ==
    LET target_lower == Lower(target)
        target_words == SplitWords(target_lower)
    IN  \E i \in 1..Len(ings) :
            LET ingredient_lower == Lower(ings[i])
            IN  \/ In(target_lower, ingredient_lower)
                \/ \A w \in 1..Len(target_words) : In(target_words[w], ingredient_lower)
                \/ check_ingredient_aliases(ingredient_lower, target_lower)

RECURSIVE avoid_interactions_downgraded(_, _, _, _)
\* the avoid list reported with the downgraded severity of the caution list
avoid_interactions_downgraded(medication, ings, data, k) ==
    IF k > Len(data.avoid) THEN <<>>
    ELSE (IF ingredient_contains(ings, data.avoid[k])
          THEN << [medication |-> medication,
                   ingredient |-> data.avoid[k],
                   interaction_type |-> "avoid",
                   severity |-> IF data.severity = "high" THEN "moderate" ELSE "low",
                   description |-> "Should avoid " \o data.avoid[k]
                                       \o " when taking " \o medication,
                   timing |-> data.timing] >>
          ELSE <<>>) \o avoid_interactions_downgraded(medication, ings, data, k + 1)

RECURSIVE avoid_interactions(_, _, _, _)
\* "Check avoid list" of one record, items[k..]
avoid_interactions(medication, ings, data, k) ==
    IF k > Len(data.avoid) THEN <<>>
    ELSE (IF ingredient_contains(ings, data.avoid[k])
          THEN << [medication |-> medication,
                   ingredient |-> data.avoid[k],
                   interaction_type |-> "avoid",
                   severity |-> data.severity,
                   description |-> "Should avoid " \o data.avoid[k]
                                       \o " when taking " \o medication,
                   timing |-> data.timing] >>
          ELSE <<>>) \o avoid_interactions(medication, ings, data, k + 1)

RECURSIVE caution_interactions_always_low(_, _, _, _)
\* the caution list reported as low whatever the severity of the record
caution_interactions_always_low(medication, ings, data, k) ==
    IF k > Len(data.caution) THEN <<>>
    ELSE (IF ingredient_contains(ings, data.caution[k])
          THEN << [medication |-> medication,
                   ingredient |-> data.caution[k],
                   interaction_type |-> "caution",
                   severity |-> "low",
                   description |-> "Use caution with " \o data.caution[k]
                                       \o " when taking " \o medication,
                   timing |-> data.timing] >>
          ELSE <<>>) \o caution_interactions_always_low(medication, ings, data, k + 1)

RECURSIVE caution_interactions(_, _, _, _)
\* "Check caution list" of one record, items[k..]
caution_interactions(medication, ings, data, k) ==
    IF k > Len(data.caution) THEN <<>>
    ELSE (IF ingredient_contains(ings, data.caution[k])
          THEN << [medication |-> medication,
                   ingredient |-> data.caution[k],
                   interaction_type |-> "caution",
                   severity |-> IF data.severity = "high" THEN "moderate" ELSE "low",
                   description |-> "Use caution with " \o data.caution[k]
                                       \o " when taking " \o medication,
                   timing |-> data.timing] >>
          ELSE <<>>) \o caution_interactions(medication, ings, data, k + 1)

RECURSIVE direct_interactions(_, _, _, _)
\* "Check direct medication interactions": the loop over known_interactions[k..]
direct_interactions(kb, medication, ings, k) ==
    IF k > Len(kb) THEN <<>>
    ELSE LET medication_lower == Strip(Lower(medication))
             data == kb[k]
         IN  (IF \/ In(data.name, medication_lower)
                 \/ AnyIn(get_medication_aliases(data.name), medication_lower)
              THEN avoid_interactions(medication, ings, data, 1)
                       \o caution_interactions(medication, ings, data, 1)
              ELSE <<>>) \o direct_interactions(kb, medication, ings, k + 1)

\* category.replace('_', ' ')
ReplaceUnderscores(s) == Join(Split(s, "_"), " ")

RECURSIVE food_interactions_of(_, _, _, _)
food_interactions_of(medication, ings, category_data, k) ==
    IF k > Len(category_data.food_interactions) THEN <<>>
    ELSE (IF ingredient_contains(ings, category_data.food_interactions[k])
          THEN << [medication |-> medication,
                   ingredient |-> category_data.food_interactions[k],
                   interaction_type |-> "category_interaction",
                   category |-> category_data.category,
                   severity |-> category_data.severity,
                   description |-> category_data.food_interactions[k]
                       \o " may interact with "
                       \o ReplaceUnderscores(category_data.category) \o " medications"] >>
          ELSE <<>>) \o food_interactions_of(medication, ings, category_data, k + 1)

RECURSIVE check_category_interactions_from(_, _, _)
check_category_interactions_from(medication, ings, k) ==
    IF k > Len(medication_categories) THEN <<>>
    ELSE (IF AnyIn(medication_categories[k].medications, Strip(Lower(medication)))
          THEN food_interactions_of(medication, ings, medication_categories[k], 1)
          ELSE <<>>) \o check_category_interactions_from(medication, ings, k + 1)

\* _check_category_interactions(medication, ingredients)
check_category_interactions(medication, ings) ==
    check_category_interactions_from(medication, ings, 1)

\* _check_single_medication without its category interactions
check_single_medication_records_only(kb, medication, ings) ==
    direct_interactions(kb, medication, ings, 1)

\* _check_single_medication(medication, ingredients)
check_single_medication(kb, medication, ings) ==
    direct_interactions(kb, medication, ings, 1)
        \o check_category_interactions(medication, ings)

RECURSIVE all_interactions_of(_, _, _)
\* all_interactions after the loop over user_profile.medications
all_interactions_of(kb, meds, ings) ==
    IF meds = <<>> THEN <<>>
    ELSE check_single_medication(kb, Head(meds), ings)
             \o all_interactions_of(kb, Tail(meds), ings)

\* interaction.get('timing'): the key is absent from category interactions
TimingOf(interaction) ==
    IF "timing" \in DOMAIN interaction THEN interaction.timing ELSE ""

RECURSIVE timing_recommendations_of(_)
timing_recommendations_of(interactions) ==
    IF interactions = <<>> THEN <<>>
    ELSE (IF TimingOf(Head(interactions)) # ""
          THEN << [medication |-> Head(interactions).medication,
                   timing |-> Head(interactions).timing] >>
          ELSE <<>>) \o timing_recommendations_of(Tail(interactions))

WithSeverity(interactions, levels) ==
    SelectSeq(interactions, LAMBDA x : x.severity \in levels)

\* check_interactions(ingredients, user_profile); the profile is its medication list
check_interactions(kb, ings, meds) ==
    IF meds = <<>>
    THEN [called |-> TRUE,
          interactions_found |-> FALSE,
          total_interactions |-> 0,
          high_risk_interactions |-> <<>>,
          moderate_risk_interactions |-> <<>>,
          low_risk_interactions |-> <<>>,
          timing_recommendations |-> <<>>]
    ELSE LET all_interactions == all_interactions_of(kb, meds, ings)
         IN  [called |-> TRUE,
              interactions_found |-> Len(all_interactions) > 0,
              total_interactions |-> Len(all_interactions),
              high_risk_interactions |-> WithSeverity(all_interactions, {"high"}),
              moderate_risk_interactions |-> WithSeverity(all_interactions, {"moderate"}),
              low_risk_interactions |->
                  SelectSeq(all_interactions,
                            LAMBDA x : x.severity \notin {"high", "moderate"}),
              timing_recommendations |-> timing_recommendations_of(all_interactions),
              detailed_interactions |-> all_interactions]

\* what _load_interaction_database can find at data/medications_db.json
DbFiles == {"missing", "unreadable", "invalid json", "valid"}

\* json.load of a valid file: some table of interactions
SampleDatabase == << [name |-> "warfarin", avoid |-> <<"spinach">>] >>

\* _load_interaction_database(): a file that is missing, cannot be opened or
\* does not hold JSON gives the empty dict, the error printed and swallowed
load_interaction_database(file) ==
    IF file = "valid" THEN SampleDatabase ELSE <<>>

\* add_custom_interaction: the table with a record for the medication, a new
\* one when it has none
with_medication(kb, medication, severity) ==
    IF \E k \in 1..Len(kb) : kb[k].name = medication THEN kb
    ELSE Append(kb, [name |-> medication, avoid |-> <<>>, caution |-> <<>>,
                     timing |-> "", severity |-> severity])

\* add_custom_interaction: the ingredient appended to the avoid or the caution
\* list of the medication's record unless it is there
append_interaction(kb, medication, ingredient, severity) ==
    LET k == CHOOSE k \in 1..Len(kb) : kb[k].name = medication
    IN  IF severity = "high"
        THEN IF InList(ingredient, kb[k].avoid) THEN kb
             ELSE [kb EXCEPT ![k].avoid = Append(@, ingredient)]
        ELSE IF InList(ingredient, kb[k].caution) THEN kb
             ELSE [kb EXCEPT ![k].caution = Append(@, ingredient)]

\* add_custom_interaction(medication, ingredient, severity, description) on the
\* table kb; the description is not used
add_custom_interaction(kb, medication, ingredient, severity) ==
    append_interaction(with_medication(kb, medication, severity),
                       medication, ingredient, severity)

RECURSIVE apply_custom_interactions(_, _)
apply_custom_interactions(kb, customs) ==
    IF customs = <<>> THEN kb
    ELSE apply_custom_interactions(
             add_custom_interaction(kb, Head(customs).medication,
                                    Head(customs).ingredient, Head(customs).severity),
             Tail(customs))

\* self.known_interactions now: the table of __init__ with the custom
\* interactions added since
current_interactions == apply_custom_interactions(known_interactions, custom_interactions)

-----------------------------------------------------------------------------
(* FoodAllergenScannerInterface: the report of a manual analysis.  Of the  *)
(* HTML text the model keeps the parts that vary: the risk class, the      *)
(* headline and the alerts.                                                 *)

\* d.get(key): the value, or the empty list when the key is absent
Get(d, key) == IF key \in DOMAIN d THEN d[key] ELSE <<>>

\* bool(d.get(key)) for a key that holds a list
Truthy(d, key) == key \in DOMAIN d /\ d[key] # <<>>

\* the headline line of the report for a risk level
headline_of(risk_level) ==
    IF risk_level = "high" THEN "HIGH RISK - DO NOT CONSUME"
    ELSE IF risk_level = "medium" THEN "MODERATE RISK - CAUTION ADVISED"
    ELSE "LOW RISK - SAFE TO CONSUME"

\* _generate_analysis_report reading the keys check_interactions does return
generate_analysis_report_reading_found(allergy_result_, medication_result) ==
    LET high == Get(allergy_result_, "high_risk_allergens")
        moderate == Get(allergy_result_, "moderate_risk_allergens")
        allergy_level == IF high # <<>> THEN "high"
                         ELSE IF moderate # <<>> THEN "medium" ELSE "low"
        risk_level ==
            IF medication_result.interactions_found /\ allergy_level # "high"
            THEN IF medication_result.high_risk_interactions # <<>>
                 THEN "high" ELSE "medium"
            ELSE allergy_level
    IN  [called |-> TRUE,
         risk_class |-> "risk-" \o risk_level,
         risk_level |-> risk_level,
         headline |-> headline_of(risk_level),
         alerts |-> IF high # <<>> THEN high ELSE moderate]

\* _generate_analysis_report(allergy_result, medication_result, product_name)
generate_analysis_report(allergy_result_, medication_result) ==
    LET high == Get(allergy_result_, "high_risk_allergens")
        moderate == Get(allergy_result_, "moderate_risk_allergens")
        allergy_level == IF high # <<>> THEN "high"
                         ELSE IF moderate # <<>> THEN "medium" ELSE "low"
        risk_level ==
            IF Truthy(medication_result, "interactions") /\ allergy_level # "high"
            THEN IF Truthy(medication_result, "severe_interactions")
                 THEN "high" ELSE "medium"
            ELSE allergy_level
    IN  [called |-> TRUE,
         risk_class |-> "risk-" \o risk_level,
         risk_level |-> risk_level,
         headline |-> headline_of(risk_level),
         alerts |-> IF high # <<>> THEN high ELSE moderate]

\* what _analyze_manual_ingredients returns for blank ingredients
please_enter_ingredients ==
    [called |-> TRUE,
     risk_class |-> "risk-neutral",
     message |-> "Please enter ingredients to analyze"]

\* the items a loop over a string visits: its characters
Characters(s) == [i \in 1..Len(s) |-> Char(s, i)]

-----------------------------------------------------------------------------
(* DoctorConsultation: the pending queue and the history.  A request keeps *)
(* its id, type, urgency and status; the symptoms, the profile, the dates, *)
(* the doctor and the contact methods take no part in what is queued.      *)

\* the type a request is filed under: consultation_type after the urgency rules
consultation_type_of(type, urgency) ==
    IF Lower(urgency) = "emergency" THEN "emergency"
    ELSE IF Lower(urgency) = "high" THEN "urgent"
    ELSE Lower(type)

\* the position of the first entry of the queue with the id, 0 when there is none
queue_position(queue, consultation_id) ==
    IF \E i \in 1..Len(queue) : queue[i].id = consultation_id
    THEN CHOOSE i \in 1..Len(queue) :
             /\ queue[i].id = consultation_id
             /\ \A j \in 1..(i - 1) : queue[j].id # consultation_id
    ELSE 0

\* queue.pop(i)
Pop(queue, i) == SubSeq(queue, 1, i - 1) \o SubSeq(queue, i + 1, Len(queue))

\* request_consultation(consultation_data) with the id _generate_consultation_id gave
request_consultation(queue, history, id, type, urgency) ==
    LET consultation_request ==
            [id |-> id,
             type |-> consultation_type_of(type, urgency),
             urgency |-> Lower(urgency),
             status |-> "pending"]
    IN  IF consultation_request.type = "emergency"
        THEN [queue |-> queue,
              history |-> Append(history,
                  consultation_request @@
                      [resolution |-> "emergency_protocol_initiated"]),
              returned |-> [consultation_id |-> id, status |-> "emergency_initiated"]]
        ELSE [queue |-> Append(queue, consultation_request),
              history |-> history,
              returned |-> [consultation_id |-> id, status |-> "requested"]]

\* cancel_consultation that leaves the cancelled entry in the queue
cancel_consultation_without_pop(queue, history, consultation_id) ==
    LET i == queue_position(queue, consultation_id)
    IN  IF i = 0
        THEN [queue |-> queue, history |-> history, returned |-> FALSE]
        ELSE LET consultation == [queue[i] EXCEPT !.status = "cancelled"]
             IN  [queue |-> [queue EXCEPT ![i] = consultation],
                  history |-> Append(history, consultation),
                  returned |-> TRUE]

\* cancel_consultation(consultation_id)
cancel_consultation(queue, history, consultation_id) ==
    LET i == queue_position(queue, consultation_id)
    IN  IF i = 0
        THEN [queue |-> queue, history |-> history, returned |-> FALSE]
        ELSE LET consultation == [queue[i] EXCEPT !.status = "cancelled"]
             IN  [queue |-> Pop(queue, i),
                  history |-> Append(history, consultation),
                  returned |-> TRUE]

-----------------------------------------------------------------------------
(* The inputs of the runs.                                                 *)

AllergyPool == {"peanuts", "dairy", "soy", "milk"}
MedicationPool == {"warfarin"}
IngredientPool == {"peanut oil", "soy lecithin", "whey protein"}

\* ingredient lists of the scenarios of the design document, and spellings of one
\* ingredient that differ in letter case and whitespace only
ScenarioLists ==
    { <<"wheat flour", "peanut oil", "sugar">>,
      <<"spinach", "olive oil">>,
      <<"water", "salt">>,
      <<"whey protein", "sugar">>,
      <<"Peanut Oil">>,
      <<"  peanut   oil ">>,
      <<"ground nut">>,
      <<"Ground  Nut">>,
      <<"milk", "shrimp", "almond", "fish sauce">>,
      <<"dairy blend">>,
      <<"soy lecithin", "soy lecithin">> }

\* profiles whose one allergy is spelled as a name of allergen_database
ScenarioProfiles == { <<"fish">>, <<"shellfish">>, <<"tree_nuts">> }

\* raw texts whose ingredient names are separated by one separator of each kind
ScenarioTexts ==
    { "milk, eggs", "milk;eggs", "milk|eggs", "milk\neggs", "milk\reggs",
      "milk\\neggs" }

\* the sequences over S of length at most n
SeqsUpTo(S, n) == UNION {[1..k -> S] : k \in 0..n}

\* the sequences over S of length at most n without a repeated element, as
\* UserProfile.add_allergy and add_medication build them
DistinctSeqsUpTo(S, n) ==
    {q \in SeqsUpTo(S, n) : \A i, j \in 1..Len(q) : q[i] = q[j] => i = j}

AllergyLists == ScenarioProfiles \cup DistinctSeqsUpTo(AllergyPool, MaxAllergies)
MedicationLists == DistinctSeqsUpTo(MedicationPool, MaxMedications)
IngredientLists == ScenarioLists \cup DistinctSeqsUpTo(IngredientPool, MaxIngredients)

\* the arguments of the add_custom_interaction calls
CustomMedications == {"warfarin", "heparin"}
CustomIngredients == {"spinach", "olive oil"}

MedCheckMedications == {"warfarin", "heparin", "levothyroxine", "ibuprofen"}
MedCheckIngredients == {"spinach", "olive oil", "red wine", "coffee"}

ParseAlphabet == {"a", "B", "1", ".", ",", " ", "%"}

RECURSIVE TextsUpTo(_)
\* the strings over ParseAlphabet of length at most n
TextsUpTo(n) ==
    IF n = 0 THEN {""}
    ELSE LET shorter == TextsUpTo(n - 1)
         IN  shorter \cup {t \o c : t \in shorter, c \in ParseAlphabet}

\* the profiles and ingredient lists of the report runs
ReportAllergies == {"peanuts", "milk"}
ReportMedications == {"warfarin"}
ReportIngredients == {"peanut oil", "soy lecithin", "whey protein", "spinach"}

\* the ids _generate_consultation_id can give: a time to the second and a
\* random suffix, so that two requests can get the same id
ConsultationIds ==
    {"CONSULT_20240101120000_1000", "CONSULT_20240101120000_1001",
     "CONSULT_20240101120001_1000"}
RequestTypes == {"general_consultation", "Emergency"}
RequestUrgencies == {"low", "high", "emergency"}

-----------------------------------------------------------------------------
(* The calls.  Every call leaves its result in the variable of its name;   *)
(* a call is made once per run on the inputs the run started with.         *)

\* IngredientAnalyzer._parse_ingredients(ingredients_text)
ParseIngredients ==
    /\ ~parsed.called
    /\ parsed' = [called |-> TRUE, tokens |-> parse_ingredients(ingredients_text)]
    /\ UNCHANGED <<allergies, medications, ingredients, ingredients_text,
                   allergy_result, analysis, med_result,
                   custom_interactions, db_file, interactions_db, calls,
                   report_vars, consultation_vars>>

\* AllergyChecker.check_allergens(ingredients, user_profile)
CheckAllergens ==
    /\ ~allergy_result.called
    /\ allergy_result' = check_allergens(ingredients, allergies)
    /\ UNCHANGED <<allergies, medications, ingredients, ingredients_text,
                   parsed, analysis, med_result,
                   custom_interactions, db_file, interactions_db, calls,
                   report_vars, consultation_vars>>

\* IngredientAnalyzer.analyze_ingredients(ingredients_text, user_profile)
AnalyzeIngredients ==
    /\ ~analysis.called
    /\ analysis' = analyze_ingredients(ingredients_text, allergies)
    /\ UNCHANGED <<allergies, medications, ingredients, ingredients_text,
                   parsed, allergy_result, med_result,
                   custom_interactions, db_file, interactions_db, calls,
                   report_vars, consultation_vars>>

\* the 'recommendations' analyze_ingredients puts into the analysis it returns:
\* the order of the two list(set(..)) lists is any
GenerateEnhancedRecommendations ==
    /\ analysis.called
    /\ ~recommendations.called
    /\ \E lines \in analysis_recommendations(ingredients_text, allergies) :
           recommendations' = [called |-> TRUE, lines |-> lines]
    /\ UNCHANGED <<allergies, medications, ingredients, ingredients_text,
                   parsed, allergy_result, analysis, med_result,
                   custom_interactions, db_file, interactions_db, calls,
                   report, consultation_vars>>

\* check_interactions that also files the first ingredient under the first
\* medication of the profile
CheckInteractions_recording ==
    /\ ~med_result.called
    /\ med_result' = check_interactions(current_interactions, ingredients, medications)
    /\ custom_interactions' =
           IF medications # <<>> /\ ingredients # <<>>
           THEN Append(custom_interactions,
                       [medication |-> medications[1], ingredient |-> ingredients[1],
                        severity |-> "high"])
           ELSE custom_interactions
    /\ UNCHANGED <<allergies, medications, ingredients, ingredients_text,
                   parsed, allergy_result, analysis,
                   db_file, interactions_db, calls,
                   report_vars, consultation_vars>>

\* MedicationChecker.check_interactions(ingredients, user_profile)
CheckInteractions ==
    /\ ~med_result.called
    /\ med_result' = check_interactions(current_interactions, ingredients, medications)
    /\ UNCHANGED <<allergies, medications, ingredients, ingredients_text,
                   parsed, allergy_result, analysis,
                   custom_interactions, db_file, interactions_db, calls,
                   report_vars, consultation_vars>>

\* MedicationChecker.add_custom_interaction(medication, ingredient, severity, ..)
AddCustomInteraction ==
    /\ Len(custom_interactions) < MaxCustom
    /\ \E medication \in CustomMedications, ingredient \in CustomIngredients,
          severity \in {"high", "moderate", "low"} :
           custom_interactions' =
               IF add_custom_interaction(current_interactions, medication,
                                         ingredient, severity) = current_interactions
               THEN custom_interactions
               ELSE Append(custom_interactions,
                           [medication |-> medication, ingredient |-> ingredient,
                            severity |-> severity])
    /\ UNCHANGED <<allergies, medications, ingredients, ingredients_text,
                   parsed, allergy_result, analysis, med_result,
                   db_file, interactions_db, calls,
                   report_vars, consultation_vars>>

\* _generate_analysis_report applied to the results of the two checkers
GenerateAnalysisReport ==
    /\ ~report.called
    /\ analysis.called
    /\ med_result.called
    /\ report' = generate_analysis_report(analysis, med_result)
    /\ UNCHANGED <<allergies, medications, ingredients, ingredients_text,
                   parsed, allergy_result, analysis, med_result,
                   custom_interactions, db_file, interactions_db, calls,
                   recommendations, consultation_vars>>

\* _analyze_manual_ingredients(product_name, ingredients, serving_size), with the
\* profile of the interface set; check_interactions is handed the text itself
AnalyzeManualIngredients ==
    /\ ~report.called
    /\ ~analysis.called
    /\ ~med_result.called
    /\ IF Strip(ingredients_text) = ""
       THEN /\ report' = please_enter_ingredients
            /\ UNCHANGED <<analysis, med_result>>
       ELSE /\ analysis' = analyze_ingredients(ingredients_text, allergies)
            /\ med_result' = check_interactions(current_interactions,
                                  Characters(ingredients_text), medications)
            /\ report' = generate_analysis_report(analysis', med_result')
    /\ UNCHANGED <<allergies, medications, ingredients, ingredients_text,
                   parsed, allergy_result,
                   custom_interactions, db_file, interactions_db, calls,
                   recommendations, consultation_vars>>

\* request_consultation(consultation_data)
RequestConsultation ==
    /\ Len(submitted) < MaxRequests
    /\ \E id \in ConsultationIds, type \in RequestTypes, urgency \in RequestUrgencies :
           LET result == request_consultation(consultation_queue,
                             consultation_history, id, type, urgency)
           IN  /\ consultation_queue' = result.queue
               /\ consultation_history' = result.history
               /\ consultation_call' =
                      [called |-> TRUE, op |-> "request", returned |-> result.returned]
               /\ submitted' = Append(submitted, id)
    /\ UNCHANGED <<allergies, medications, ingredients, ingredients_text,
                   parsed, allergy_result, analysis, med_result,
                   custom_interactions, db_file, interactions_db, calls,
                   report_vars>>

\* cancel_consultation(consultation_id)
CancelConsultation ==
    /\ \E consultation_id \in ConsultationIds :
           LET result == cancel_consultation(consultation_queue,
                             consultation_history, consultation_id)
           IN  /\ consultation_queue' = result.queue
               /\ consultation_history' = result.history
               /\ consultation_call' =
                      [called |-> TRUE, op |-> "cancel",
                       consultation_id |-> consultation_id,
                       returned |-> result.returned]
    /\ UNCHANGED <<allergies, medications, ingredients, ingredients_text,
                   parsed, allergy_result, analysis, med_result,
                   custom_interactions, db_file, interactions_db, calls,
                   report_vars, submitted>>

NoResults ==
    /\ parsed = NotCalled
    /\ allergy_result = NotCalled
    /\ analysis = NotCalled
    /\ med_result = NotCalled
    /\ recommendations = NotCalled
    /\ report = NotCalled
    /\ consultation_queue = <<>>
    /\ consultation_history = <<>>
    /\ consultation_call = NotCalled
    /\ submitted = <<>>

\* MedicationChecker.__init__ with the given file at data/medications_db.json
Constructed(file) ==
    /\ db_file = file
    /\ interactions_db = load_interaction_database(file)
    /\ custom_interactions = <<>>

\* allergen analysis: a profile, an ingredient list and its comma-joined text
Init ==
    /\ allergies \in AllergyLists
    /\ medications \in MedicationLists
    /\ ingredients \in IngredientLists
    /\ ingredients_text = Join(ingredients, ", ")
    /\ NoResults
    /\ Constructed("missing")
    /\ calls = <<>>

Next == CheckAllergens \/ AnalyzeIngredients

Spec == Init /\ [][Next]_vars

\* medication checks: a medication list and an ingredient list
InitMed ==
    /\ allergies = <<>>
    /\ medications \in DistinctSeqsUpTo(MedCheckMedications, MaxMedications)
    /\ ingredients \in SeqsUpTo(MedCheckIngredients, MaxIngredients)
    /\ ingredients_text = Join(ingredients, ", ")
    /\ NoResults
    /\ Constructed("missing")
    /\ calls = <<>>

NextMed == CheckInteractions

SpecMed == InitMed /\ [][NextMed]_vars

\* the parser alone, on every short text over ParseAlphabet
InitParse ==
    /\ allergies = <<>>
    /\ medications = <<>>
    /\ ingredients = <<>>
    /\ ingredients_text \in ScenarioTexts \cup TextsUpTo(MaxLen)
    /\ NoResults
    /\ Constructed("missing")
    /\ calls = <<>>

NextParse == ParseIngredients

SpecParse == InitParse /\ [][NextParse]_vars

\* the threads that call into one analyzer and one medication checker
Threads == {"t1", "t2"}

\* a call that has not started: its arguments and its local variables
NewCall(op, text, ings, profile) ==
    [op |-> op, text |-> text, ingredients |-> ings, profile |-> profile,
     pc |-> IF op = "analyze_ingredients" THEN "parse" ELSE op,
     allergy_analysis |-> NotCalled, hidden_allergens |-> {}, result |-> NotCalled]

ConcurrentCalls ==
    {NewCall("analyze_ingredients", text, <<>>, profile) :
        text \in {"whey protein, sugar", "soy lecithin, peanut oil"},
        profile \in {<<"dairy">>, <<"soy", "peanuts">>}}
    \cup {NewCall("check_allergens", "", ings, profile) :
        ings \in {<<"peanut oil">>, <<"soy lecithin", "milk">>},
        profile \in {<<"milk">>, <<"peanuts">>}}
    \cup {NewCall("check_interactions", "", ings, <<"warfarin">>) :
        ings \in {<<"spinach", "olive oil">>, <<"red wine">>}}

\* analyze_ingredients: ingredients = self._parse_ingredients(ingredients_text)
\* and the return of the advisory result when there is none
CallParse(t) ==
    /\ calls[t].pc = "parse"
    /\ LET ings == parse_ingredients(calls[t].text)
       IN  calls' = [calls EXCEPT ![t] =
                        IF ings = <<>>
                        THEN [@ EXCEPT !.pc = "done", !.result = no_ingredients_found]
                        ELSE [@ EXCEPT !.pc = "check_allergens", !.ingredients = ings]]
    /\ UNCHANGED <<allergies, medications, ingredients, ingredients_text,
                   parsed, allergy_result, analysis, med_result,
                   custom_interactions, db_file, interactions_db,
                   report_vars, consultation_vars>>

\* check_allergens(ingredients, user_profile), called directly or by analyze_ingredients
CallCheckAllergens(t) ==
    /\ calls[t].pc = "check_allergens"
    /\ LET found == check_allergens(calls[t].ingredients, calls[t].profile)
       IN  calls' = [calls EXCEPT ![t] =
                        IF calls[t].op = "check_allergens"
                        THEN [calls[t] EXCEPT !.pc = "done", !.result = found]
                        ELSE [calls[t] EXCEPT !.pc = "detect_hidden", !.allergy_analysis = found]]
    /\ UNCHANGED <<allergies, medications, ingredients, ingredients_text,
                   parsed, allergy_result, analysis, med_result,
                   custom_interactions, db_file, interactions_db,
                   report_vars, consultation_vars>>

\* analyze_ingredients with the ingredients of whichever call parsed, as if the
\* parsed list were kept on the analyzer object
CallDetectHidden_shared(t) ==
    /\ calls[t].pc = "detect_hidden"
    /\ \E u \in Threads :
           /\ calls[u].op = "analyze_ingredients"
           /\ calls[u].pc \notin {"parse"}
           /\ calls' = [calls EXCEPT ![t] =
                  [calls[t] EXCEPT !.pc = "return",
                            !.hidden_allergens =
                                detect_hidden_allergens(calls[u].ingredients, calls[t].profile)]]
    /\ UNCHANGED <<allergies, medications, ingredients, ingredients_text,
                   parsed, allergy_result, analysis, med_result,
                   custom_interactions, db_file, interactions_db,
                   report_vars, consultation_vars>>

\* analyze_ingredients: hidden_allergens = self._detect_hidden_allergens(..)
CallDetectHidden(t) ==
    /\ calls[t].pc = "detect_hidden"
    /\ calls' = [calls EXCEPT ![t] =
           [calls[t] EXCEPT !.pc = "return",
                     !.hidden_allergens =
                         detect_hidden_allergens(calls[t].ingredients, calls[t].profile)]]
    /\ UNCHANGED <<allergies, medications, ingredients, ingredients_text,
                   parsed, allergy_result, analysis, med_result,
                   custom_interactions, db_file, interactions_db,
                   report_vars, consultation_vars>>

\* analyze_ingredients: the analyses combined and returned
CallReturn(t) ==
    /\ calls[t].pc = "return"
    /\ calls' = [calls EXCEPT ![t] =
           [calls[t] EXCEPT !.pc = "done",
                     !.result = comprehensive_analysis(calls[t].allergy_analysis,
                                    calls[t].hidden_allergens, calls[t].ingredients)]]
    /\ UNCHANGED <<allergies, medications, ingredients, ingredients_text,
                   parsed, allergy_result, analysis, med_result,
                   custom_interactions, db_file, interactions_db,
                   report_vars, consultation_vars>>

\* check_interactions(ingredients, user_profile)
CallCheckInteractions(t) ==
    /\ calls[t].pc = "check_interactions"
    /\ calls' = [calls EXCEPT ![t] =
           [calls[t] EXCEPT !.pc = "done",
                     !.result = check_interactions(current_interactions,
                                                   calls[t].ingredients, calls[t].profile)]]
    /\ UNCHANGED <<allergies, medications, ingredients, ingredients_text,
                   parsed, allergy_result, analysis, med_result,
                   custom_interactions, db_file, interactions_db,
                   report_vars, consultation_vars>>

\* calls of several threads on the same analyzer and checker objects, their
\* steps interleaved in every order
InitConc ==
    /\ allergies = <<>>
    /\ medications = <<>>
    /\ ingredients = <<>>
    /\ ingredients_text = ""
    /\ NoResults
    /\ Constructed("missing")
    /\ calls \in [Threads -> ConcurrentCalls]

NextConc ==
    \E t \in Threads :
        \/ CallParse(t)
        \/ CallCheckAllergens(t)
        \/ CallDetectHidden(t)
        \/ CallReturn(t)
        \/ CallCheckInteractions(t)

SpecConc == InitConc /\ [][NextConc]_vars

\* the knowledge base over the life of a checker: the three analysis calls in
\* any order and add_custom_interaction, after a construction that found any
\* kind of file
InitKB ==
    /\ allergies = <<"peanuts">>
    /\ medications \in DistinctSeqsUpTo(CustomMedications, MaxMedications)
    /\ ingredients = <<"spinach", "olive oil">>
    /\ ingredients_text = Join(ingredients, ", ")
    /\ NoResults
    /\ \E file \in DbFiles : Constructed(file)
    /\ calls = <<>>

NextKB ==
    \/ CheckAllergens
    \/ AnalyzeIngredients
    \/ CheckInteractions
    \/ AddCustomInteraction

SpecKB == InitKB /\ [][NextKB]_vars

\* The report of the interface: the two checkers run on a product, and the
\* report is built from their results or by the manual-analysis handler.
InitReport ==
    /\ allergies \in DistinctSeqsUpTo(ReportAllergies, MaxAllergies)
    /\ medications \in DistinctSeqsUpTo(ReportMedications, MaxMedications)
    /\ ingredients \in SeqsUpTo(ReportIngredients, MaxIngredients)
    /\ ingredients_text = Join(ingredients, ", ")
    /\ NoResults
    /\ Constructed("missing")
    /\ calls = <<>>

NextReport ==
    \/ AnalyzeIngredients
    \/ CheckInteractions
    \/ GenerateEnhancedRecommendations
    \/ GenerateAnalysisReport
    \/ AnalyzeManualIngredients

SpecReport == InitReport /\ [][NextReport]_vars

\* The consultation service after construction, under any requests and cancels.
InitConsult ==
    /\ allergies = <<>>
    /\ medications = <<>>
    /\ ingredients = <<>>
    /\ ingredients_text = ""
    /\ NoResults
    /\ Constructed("missing")
    /\ calls = <<>>

NextConsult == RequestConsultation \/ CancelConsultation

SpecConsult == InitConsult /\ [][NextConsult]_vars

-----------------------------------------------------------------------------
(* Properties.                                                             *)

\* the order safe < low < moderate < high; unknown is outside the order
LevelRank(level) ==
    CASE level = "high" -> 3
      [] level = "moderate" -> 2
      [] level = "low" -> 1
      [] OTHER -> 0

MaxOf(S) == IF S = {} THEN 0 ELSE CHOOSE m \in S : \A x \in S : x <= m

\* the result is a full assessment, not the "No ingredients found" variant
IsAssessment(result) == result.called /\ "error" \notin DOMAIN result

\* C1 (Scenario D): allergies = {"dairy"}, no medications, "whey protein, sugar"
\* gives the hidden match "whey protein (hidden dairy)" and an overall level of
\* moderate or higher.
C1_ScenarioD ==
    (/\ analysis.called
     /\ allergies = <<"dairy">>
     /\ medications = <<>>
     /\ ingredients_text = "whey protein, sugar")
    => /\ IsAssessment(analysis)
       /\ "whey protein (hidden dairy)" \in analysis.hidden_allergens
       /\ LevelRank(analysis.risk_level) >= LevelRank("moderate")

\* the cross-contamination warning that names a related category
WarningFor(related_category) == "Cross-contamination risk with " \o related_category

\* C2: whenever a declared allergy resolves to a category, an ingredient that
\* matches a synonym of a related category produces a warning naming it, with
\* or without a direct match (Scenario E: peanuts, "soy lecithin": no direct
\* match, a warning referencing soy).
C2_CrossContaminationAlwaysTested ==
    allergy_result.called =>
        \A a \in 1..Len(allergies) :
            LET category == find_category(Strip(Lower(allergies[a])))
                related == IF category = None THEN <<>> ELSE related_of(category)
            IN  \A r \in 1..Len(related) :
                    risk_category_hit(related[r], NormalizeAll(ingredients))
                    => WarningFor(related[r]) \in allergy_result.cross_contamination_risks

\* C3 (Scenario A): allergies = {"peanuts"}, "wheat flour, peanut oil, sugar"
\* gives level high, and the peanuts allergy matched on "peanut oil" only.
C3_ScenarioA ==
    (/\ analysis.called
     /\ allergies = <<"peanuts">>
     /\ ingredients_text = "wheat flour, peanut oil, sugar")
    => /\ IsAssessment(analysis)
       /\ analysis.risk_level = "high"
       /\ analysis.detected_allergens = <<"peanuts">>
       /\ analysis.ingredient_matches = <<"peanut oil">>

C3_Witness ==
    /\ analysis.called
    /\ allergies = <<"peanuts">>
    /\ ingredients_text = "wheat flour, peanut oil, sugar"
    /\ analysis.processed_ingredients = <<"wheat flour", "peanut oil", "sugar">>
    /\ analysis.high_risk_allergens = <<"peanuts">>

\* C4 (Scenario B): medications = {"warfarin"}, ingredients spinach and olive oil:
\* the matches contain warfarin / spinach / avoid / high.
C4_ScenarioB ==
    (/\ med_result.called
     /\ medications = <<"warfarin">>
     /\ ingredients = <<"spinach", "olive oil">>)
    => /\ "detailed_interactions" \in DOMAIN med_result
       /\ \E i \in 1..Len(med_result.detailed_interactions) :
              LET m == med_result.detailed_interactions[i]
              IN  /\ m.medication = "warfarin"
                  /\ m.ingredient = "spinach"
                  /\ m.interaction_type = "avoid"
                  /\ m.severity = "high"

C4_Witness ==
    /\ med_result.called
    /\ medications = <<"warfarin">>
    /\ ingredients = <<"spinach", "olive oil">>
    /\ med_result.interactions_found
    /\ Len(med_result.high_risk_interactions) = 1

\* C5: the overall level is unknown exactly when the profile has no allergies
\* and no medications; with an allergy or a medication it is never unknown,
\* whatever the ingredient text.
C5_UnknownIffEmptyProfile ==
    analysis.called =>
        (analysis.risk_level = "unknown" <=> (allergies = <<>> /\ medications = <<>>))

\* the severities of the three match collections of one assessment
AllergenMatchRanks(result) ==
    {LevelRank(get_allergen_severity(result.detected_allergens[i])) :
        i \in 1..Len(result.detected_allergens)}

HiddenMatchRanks(result) ==
    {LevelRank(get_allergen_severity(hidden_sources[k].category)) :
        k \in {j \in 1..Len(hidden_sources) :
                  \E a \in 1..Len(allergies) :
                      /\ j \in hidden_categories(allergies[a])
                      /\ hidden_hits(hidden_sources[j], result.processed_ingredients)
                             \subseteq result.hidden_allergens
                      /\ hidden_hits(hidden_sources[j], result.processed_ingredients) # {}}}

MedicationMatchRanks(result) ==
    LET found == all_interactions_of(known_interactions, medications,
                                     result.processed_ingredients)
    IN  {LevelRank(found[i].severity) : i \in 1..Len(found)}

\* C6: for a non-empty profile the overall level is the maximum severity over
\* the direct, hidden and medication matches, and safe only if all are empty.
C6_OverallIsMaximum ==
    (analysis.called /\ (allergies # <<>> \/ medications # <<>>))
    => /\ IsAssessment(analysis)
       /\ LevelRank(analysis.risk_level)
              = MaxOf(AllergenMatchRanks(analysis) \cup HiddenMatchRanks(analysis)
                          \cup MedicationMatchRanks(analysis))

\* C7: parsing the tokens of parse(x), joined back with the separator, gives
\* the token sequence of parse(x) again.
C7_ParseIdempotent ==
    parsed.called =>
        parse_ingredients(Join(parsed.tokens, ", ")) = parsed.tokens

RECURSIVE CollapseFrom(_, _)
\* s[i..] with every run of whitespace replaced by one space
CollapseFrom(s, i) ==
    IF i > Len(s) THEN ""
    ELSE IF Char(s, i) \in Whitespace
         THEN " " \o CollapseFrom(s, LSkip(s, i, Whitespace))
         ELSE Char(s, i) \o CollapseFrom(s, i + 1)

\* a text up to letter case and the amount of leading, trailing and internal whitespace
Canon(s) == Strip(CollapseFrom(Lower(s), 1))

\* the match sets of an assessment, its ingredients up to case and whitespace
MatchSets(result) ==
    [level |-> result.risk_level,
     detected |-> IF "detected_allergens" \in DOMAIN result
                  THEN result.detected_allergens ELSE <<>>,
     matched |-> IF "ingredient_matches" \in DOMAIN result
                 THEN {Canon(m) : m \in SeqToSet(result.ingredient_matches)} ELSE {},
     hidden |-> IF "hidden_allergens" \in DOMAIN result
                THEN {Canon(h) : h \in result.hidden_allergens} ELSE {},
     cross |-> IF "cross_contamination_risks" \in DOMAIN result
               THEN result.cross_contamination_risks ELSE {}]

\* C8: ingredient texts that differ only in letter case and in the amount of
\* whitespace yield identical match sets, for every profile.
C8_CaseWhitespaceInvariant ==
    analysis.called =>
        \A other \in IngredientLists :
            Canon(Join(other, ", ")) = Canon(ingredients_text)
            => MatchSets(analyze_ingredients(Join(other, ", "), allergies))
                   = MatchSets(analysis)

\* C9: for a fixed profile, appending a token to a non-empty ingredient list
\* never decreases the overall level.
C9_Monotonic ==
    (allergy_result.called /\ ingredients # <<>>) =>
        \A token \in IngredientPool :
            LevelRank(check_allergens(Append(ingredients, token), allergies).risk_level)
                >= LevelRank(allergy_result.risk_level)

C9_Witness ==
    /\ allergy_result.called
    /\ ingredients # <<>>
    /\ allergy_result.risk_level = "low"
    /\ \E token \in IngredientPool :
           check_allergens(Append(ingredients, token), allergies).risk_level = "high"

\* the list with the elements at positions i and j exchanged
Swap(list, i, j) ==
    [k \in 1..Len(list) |-> IF k = i THEN list[j] ELSE IF k = j THEN list[i] ELSE list[k]]

\* the (allergy, ingredient) pairs matched for a profile on an ingredient list
MatchPairs(user_allergies, ings) ==
    UNION {{<<user_allergies[a], m>> :
               m \in SeqToSet(find_allergen_matches(user_allergies[a], NormalizeAll(ings)))} :
           a \in 1..Len(user_allergies)}

\* C10: for a fixed profile, ingredient lists that are permutations of each
\* other give the same matched pairs, cross-contamination warnings, hidden
\* hits and overall level.  Every permutation is a product of exchanges of two
\* positions, and every exchanged list is an input of some run.
C10_OrderIndependent ==
    allergy_result.called =>
        \A i, j \in 1..Len(ingredients) :
            i < j =>
                \A other \in {Swap(ingredients, i, j)} :
                \A result \in {check_allergens(other, allergies)} :
                    /\ MatchPairs(allergies, other) = MatchPairs(allergies, ingredients)
                    /\ result.cross_contamination_risks
                           = allergy_result.cross_contamination_risks
                    /\ result.risk_level = allergy_result.risk_level
                    /\ detect_hidden_allergens(other, allergies)
                           = detect_hidden_allergens(ingredients, allergies)

C10_Witness ==
    /\ allergy_result.called
    /\ Len(ingredients) >= 2
    /\ ingredients[1] # ingredients[2]
    /\ allergy_result.detected_allergens # <<>>
    /\ allergy_result.cross_contamination_risks # {}
    /\ detect_hidden_allergens(ingredients, allergies) # {}

\* a list without a repeated element
NoRepeats(list) == \A i, j \in 1..Len(list) : list[i] = list[j] => i = j

\* the (subject, ingredient, interaction kind) tuples of a list of interactions
InteractionKeys(found) ==
    [i \in 1..Len(found) |->
        <<found[i].medication, found[i].ingredient, found[i].interaction_type>>]

\* C11: within one assessment no match collection holds two entries for the
\* same (subject, ingredient, interaction kind), even when the ingredient list
\* holds the same token more than once; hidden-allergen hits of the same
\* ingredient and category are merged into one.
C11_NoDuplicateMatches ==
    (allergy_result.called /\ "ingredient_matches" \in DOMAIN allergy_result)
    => /\ NoRepeats(allergy_result.detected_allergens)
       /\ NoRepeats(allergy_result.ingredient_matches)
       /\ \A a \in 1..Len(allergies) :
              NoRepeats(find_allergen_matches(allergies[a], NormalizeAll(ingredients)))
       /\ NoRepeats(InteractionKeys(
              all_interactions_of(known_interactions, medications, ingredients)))

\* the keys of the match collections a normal assessment carries
MatchCollections ==
    {"detected_allergens", "high_risk_allergens", "moderate_risk_allergens",
     "low_risk_allergens", "cross_contamination_risks", "hidden_allergens"}

\* C14: a text that parses to no token raises nothing and the later stages run
\* over the empty sequence: the result is an advisory variant that carries the
\* match collections of a normal assessment, all of them empty.
C14_EmptyParseIsAdvisory ==
    (analysis.called /\ parse_ingredients(ingredients_text) = <<>>)
    => /\ MatchCollections \subseteq DOMAIN analysis
       /\ "error" \in DOMAIN analysis
       /\ \A key \in MatchCollections \cap DOMAIN analysis :
              IF key \in {"cross_contamination_risks", "hidden_allergens"}
              THEN analysis[key] = {} ELSE analysis[key] = <<>>

\* the characters the parser is to split on: comma, semicolon, pipe, line breaks
SeparatorChars == {",", ";", "|", "\n", "\r"}

\* C17: a comma, a semicolon, a pipe or a line break anywhere in the input ends
\* the current token: no token holds one of them, and two names separated by a
\* line break only are two tokens.
C17_SplitsOnEverySeparator ==
    parsed.called =>
        \A t \in 1..Len(parsed.tokens) :
            \A c \in SeparatorChars : ~In(c, parsed.tokens[t])

\* C18: every token of the parser's output is longer than one character,
\* tokens whose leading numbering or trailing punctuation was stripped included.
C18_TokensLongerThanOne ==
    parsed.called =>
        \A t \in 1..Len(parsed.tokens) : Len(parsed.tokens[t]) > 1

\* the names of allergen_database
CategoryNames == {allergen_database[k].category : k \in 1..Len(allergen_database)}

\* C19: an allergy spelled as a category name resolves to that category, and
\* an ingredient equal to a synonym of the category is reported as a direct
\* match of the allergy.
C19_CategoryNameResolves ==
    allergy_result.called =>
        \A a \in 1..Len(allergies) :
            LET name == Strip(Lower(allergies[a]))
                ings == NormalizeAll(ingredients)
            IN  name \in CategoryNames =>
                    /\ find_category(name) = name
                    /\ \A i \in 1..Len(ings) :
                           InList(ings[i], allergens_of(name))
                           => /\ InList(ings[i], find_allergen_matches(allergies[a], ings))
                              /\ InList(allergies[a], allergy_result.detected_allergens)

\* severity_levels[category], moderate when the category has no entry
SeverityOfCategory(category) ==
    IF \E k \in 1..Len(severity_levels) : severity_levels[k].allergen = category
    THEN severity_levels[CHOOSE k \in 1..Len(severity_levels) :
                             severity_levels[k].allergen = category].severity
    ELSE "moderate"

\* the severity tier of the result an allergy was placed in
TierOf(result, allergy) ==
    IF InList(allergy, result.high_risk_allergens) THEN "high"
    ELSE IF InList(allergy, result.moderate_risk_allergens) THEN "moderate"
    ELSE IF InList(allergy, result.low_risk_allergens) THEN "low"
    ELSE "none"

\* C20: every detected allergy that resolves to a category is placed in the
\* tier severity_levels gives for that category (an allergy resolving to the
\* fish category is moderate, never high).
C20_SeverityOfResolvedCategory ==
    allergy_result.called =>
        \A i \in 1..Len(allergy_result.detected_allergens) :
            LET allergy == allergy_result.detected_allergens[i]
                category == find_category(Strip(Lower(allergy)))
            IN  category # None
                => TierOf(allergy_result, allergy) = SeverityOfCategory(category)

\* a step that returns from check_allergens, analyze_ingredients or check_interactions
AnalysisReturns ==
    \/ allergy_result' # allergy_result
    \/ analysis' # analysis
    \/ med_result' # med_result

\* C12: analysis calls never write to the knowledge base: every step in which
\* check_allergens, analyze_ingredients or check_interactions returns, in any
\* order and before or after custom interactions were added, leaves the
\* known-interaction table and the loaded database as they were.  (The
\* allergen, severity, cross-contamination and medication-category tables have
\* no writer in the source at all and are definitions here.)
C12_AnalysisNeverWritesKB ==
    [][AnalysisReturns =>
          /\ apply_custom_interactions(known_interactions, custom_interactions')
                 = current_interactions
          /\ interactions_db' = interactions_db]_vars

C12_Witness ==
    /\ allergy_result.called
    /\ analysis.called
    /\ med_result.called
    /\ med_result.interactions_found
    /\ current_interactions = known_interactions

\* C13: no operation of the checker objects changes the medication interaction
\* table after construction, so a check_interactions result is the one the
\* constructed table gives, at every point of the life of the process.
C13_InteractionTableNeverMutated ==
    /\ current_interactions = known_interactions
    /\ med_result.called
           => med_result = check_interactions(known_interactions, ingredients, medications)

\* the load of the knowledge base failed
LoadFailed == db_file \in {"missing", "unreadable", "invalid json"}

\* C15: a knowledge base that fails to load is fatal: no analysis call is ever
\* served by a checker whose load failed.
C15_FailedLoadIsFatal ==
    LoadFailed => ~(med_result.called \/ allergy_result.called \/ analysis.called)

\* the result of a call when no other call runs
ResultAlone(call) ==
    CASE call.op = "analyze_ingredients" -> analyze_ingredients(call.text, call.profile)
      [] call.op = "check_allergens" -> check_allergens(call.ingredients, call.profile)
      [] call.op = "check_interactions" ->
             check_interactions(known_interactions, call.ingredients, call.profile)

\* C16: analysis calls share no mutable state: when several calls run
\* concurrently on the same objects, under every interleaving of their steps
\* each call returns exactly the result it returns when run alone.
C16_ConcurrentCallsAsAlone ==
    \A t \in DOMAIN calls :
        calls[t].pc = "done" => calls[t].result = ResultAlone(calls[t])

C16_Witness ==
    /\ DOMAIN calls = Threads
    /\ calls["t1"].op = "analyze_ingredients"
    /\ calls["t2"].op = "analyze_ingredients"
    /\ calls["t1"].text # calls["t2"].text
    /\ calls["t1"].pc = "done"
    /\ calls["t1"].result.hidden_allergens # {}
    /\ calls["t2"].pc = "detect_hidden"

\* the list without its element at position a
Without(list, a) == SubSeq(list, 1, a - 1) \o SubSeq(list, a + 1, Len(list))

\* C21: a declared allergy that resolves to no category produces no match and
\* no error, whatever the ingredients: it is never among the detected
\* allergens and never raises the level, even when the string itself occurs
\* inside an ingredient.
C21_UnresolvedAllergyNeverMatches ==
    allergy_result.called =>
        \A a \in 1..Len(allergies) :
            find_category(Strip(Lower(allergies[a]))) = None
            => /\ ~InList(allergies[a], allergy_result.detected_allergens)
               /\ LevelRank(allergy_result.risk_level)
                      = LevelRank(check_allergens(ingredients,
                                                  Without(allergies, a)).risk_level)

\* the names of hidden_sources an allergy is looked up under
HiddenCategoryNames(user_allergy) ==
    {hidden_sources[k].category : k \in hidden_categories(user_allergy)}

\* C22: the hidden-allergen detector resolves an allergy as the allergen
\* matcher does: the category whose hidden aliases are looked up is the zero
\* or one category the matcher resolves the allergy to.
C22_HiddenResolvesAsMatcher ==
    analysis.called =>
        \A a \in 1..Len(allergies) :
            LET category == find_category(Strip(Lower(allergies[a])))
            IN  HiddenCategoryNames(allergies[a])
                    = IF category = None THEN {} ELSE {category}

\* the number of the three risk lists of a result that hold the allergy
TiersHolding(result, allergy) ==
    Cardinality({tier \in {"high_risk_allergens", "moderate_risk_allergens",
                           "low_risk_allergens"} : InList(allergy, result[tier])})

\* C27: for a profile with an allergy, the high, moderate and low lists
\* partition the detected allergens, and the level is high iff the high list
\* is not empty, moderate iff the high list is empty and the moderate one is
\* not, low iff only the low list is not empty, safe iff nothing was detected.
C27_TiersPartitionDetected ==
    (allergy_result.called /\ allergies # <<>>) =>
        LET r == allergy_result
            detected == SeqToSet(r.detected_allergens)
        IN  /\ NoRepeats(r.high_risk_allergens \o r.moderate_risk_allergens
                             \o r.low_risk_allergens)
            /\ SeqToSet(r.high_risk_allergens) \cup SeqToSet(r.moderate_risk_allergens)
                   \cup SeqToSet(r.low_risk_allergens) = detected
            /\ \A d \in detected : TiersHolding(r, d) = 1
            /\ r.risk_level = "high" <=> r.high_risk_allergens # <<>>
            /\ r.risk_level = "moderate" <=>
                   (r.high_risk_allergens = <<>> /\ r.moderate_risk_allergens # <<>>)
            /\ r.risk_level = "low" <=>
                   (/\ r.high_risk_allergens = <<>>
                    /\ r.moderate_risk_allergens = <<>>
                    /\ r.low_risk_allergens # <<>>)
            /\ r.risk_level = "safe" <=> r.detected_allergens = <<>>

C27_Witness ==
    /\ allergy_result.called
    /\ allergy_result.high_risk_allergens = <<"peanuts">>
    /\ allergy_result.low_risk_allergens = <<"soy">>
    /\ allergy_result.detected_allergens = <<"soy", "peanuts">>
    /\ allergy_result.risk_level = "high"

\* C28: ingredient_matches is the match list of the last allergy of the
\* profile only; the matches of earlier allergies are not in it, so it can be
\* empty while the level is high, and it depends on the order of the allergies.
C28_MatchesOfLastAllergyOnly ==
    (allergy_result.called /\ allergies # <<>>) =>
        allergy_result.ingredient_matches
            = find_allergen_matches(allergies[Len(allergies)], NormalizeAll(ingredients))

C28_Witness ==
    /\ allergy_result.called
    /\ allergies = <<"peanuts", "milk">>
    /\ allergy_result.risk_level = "high"
    /\ allergy_result.ingredient_matches = <<>>
    /\ check_allergens(ingredients, <<"milk", "peanuts">>).ingredient_matches # <<>>

\* the records of the table a declared medication resolves to
ResolvedRecords(kb, medication) ==
    {k \in 1..Len(kb) :
        \/ In(kb[k].name, Strip(Lower(medication)))
        \/ AnyIn(get_medication_aliases(kb[k].name), Strip(Lower(medication)))}

\* C23: a declared medication that resolves to a record with a timing note
\* (levothyroxine, tetracycline) gets exactly one timing recommendation,
\* whether or not an ingredient matched one of its avoid or caution terms.
C23_TimingNoteAlwaysSurfaced ==
    med_result.called =>
        \A m \in 1..Len(medications) :
            (\E k \in ResolvedRecords(known_interactions, medications[m]) :
                 known_interactions[k].timing # "")
            => Cardinality({i \in 1..Len(med_result.timing_recommendations) :
                   med_result.timing_recommendations[i].medication = medications[m]}) = 1

\* the categories of medication_categories a declared medication is a member of
CategoriesOf(medication) ==
    {k \in 1..Len(medication_categories) :
        AnyIn(medication_categories[k].medications, Strip(Lower(medication)))}

\* the interactions of a result that name the medication
InteractionsOf(result, medication) ==
    IF "detailed_interactions" \in DOMAIN result
    THEN SelectSeq(result.detailed_interactions, LAMBDA x : x.medication = medication)
    ELSE <<>>

\* C24: category matching does not depend on record resolution: a medication
\* with no record of its own that is a member of a category yields, for every
\* food-interaction term of the category an ingredient matches, a match tagged
\* with the category and its severity; a medication that matches neither a
\* record nor a category yields no match and no error.
C24_CategoryMatchingWithoutRecord ==
    med_result.called =>
        \A m \in 1..Len(medications) :
            LET medication == medications[m]
                found == InteractionsOf(med_result, medication)
            IN  ResolvedRecords(known_interactions, medication) = {}
                => /\ \A k \in CategoriesOf(medication) :
                       \A f \in 1..Len(medication_categories[k].food_interactions) :
                           LET term == medication_categories[k].food_interactions[f]
                           IN  ingredient_contains(ingredients, term)
                               => \E i \in 1..Len(found) :
                                      /\ found[i].ingredient = term
                                      /\ found[i].interaction_type = "category_interaction"
                                      /\ found[i].category = medication_categories[k].category
                                      /\ found[i].severity = medication_categories[k].severity
                   /\ CategoriesOf(medication) = {}
                          => /\ found = <<>>
                             /\ "error" \notin DOMAIN med_result
                             /\ "detailed_interactions" \in DOMAIN med_result

C24_Witness ==
    /\ med_result.called
    /\ medications = <<"heparin">>
    /\ ResolvedRecords(known_interactions, "heparin") = {}
    /\ ingredients = <<"red wine">>
    /\ Len(med_result.high_risk_interactions) = 1
    /\ med_result.high_risk_interactions[1].category = "blood_thinners"
    /\ med_result.high_risk_interactions[1].ingredient = "alcohol"

\* the severity one level below, with floor low
OneLevelBelow(severity) ==
    CASE LevelRank(severity) = 3 -> "moderate"
      [] LevelRank(severity) = 2 -> "low"
      [] OTHER -> "low"

\* C25: for a resolved record every avoid-term hit has the severity of the
\* record and every caution-term hit the severity one level below it, with
\* floor low (high -> moderate, moderate -> low, low -> low).
C25_CautionOneLevelBelow ==
    (med_result.called /\ "detailed_interactions" \in DOMAIN med_result) =>
        \A i \in 1..Len(med_result.detailed_interactions) :
            LET x == med_result.detailed_interactions[i]
                records == {current_interactions[k] :
                               k \in ResolvedRecords(current_interactions, x.medication)}
            IN  /\ x.interaction_type = "avoid"
                       => \E data \in records :
                              InList(x.ingredient, data.avoid) /\ x.severity = data.severity
                /\ x.interaction_type = "caution"
                       => \E data \in records :
                              /\ InList(x.ingredient, data.caution)
                              /\ x.severity = OneLevelBelow(data.severity)

C25_Witness ==
    /\ med_result.called
    /\ medications = <<"warfarin">>
    /\ \E i, j \in 1..Len(med_result.detailed_interactions) :
           LET x == med_result.detailed_interactions[i]
               y == med_result.detailed_interactions[j]
           IN  /\ x.interaction_type = "avoid" /\ x.severity = "high"
               /\ y.interaction_type = "caution" /\ y.severity = "moderate"


\* s starts with prefix
StartsWith(s, prefix) == Len(s) >= Len(prefix) /\ SubSeq(s, 1, Len(prefix)) = prefix

\* the position of the first line that starts with prefix, 0 when there is none
LineOf(lines, prefix) ==
    IF \E i \in 1..Len(lines) : StartsWith(lines[i], prefix)
    THEN CHOOSE i \in 1..Len(lines) :
             /\ StartsWith(lines[i], prefix)
             /\ \A j \in 1..(i - 1) : ~StartsWith(lines[j], prefix)
    ELSE 0

\* the two sections, where both are present, come in this order
InOrder(first, second) == first = 0 \/ second = 0 \/ first < second

\* C26: the recommendations of an analysis with an assessed level start with the
\* fixed template of that level, followed in this order by the list of the
\* detected allergens, the cross-contamination warnings, the hidden-allergen
\* disclosures and the substitute suggestions; substitutes are suggested only
\* when the level is moderate or high.
C26_RecommendationSections ==
    (recommendations.called
        /\ analysis.risk_level \in {"high", "moderate", "low", "safe"}) =>
        LET lines == recommendations.lines
            template == template_of(analysis.risk_level)
            named == LineOf(lines, "Detected allergens: ")
            cross == LineOf(lines, "Cross-contamination risks detected")
            hidden == LineOf(lines, "Hidden allergens detected:")
            substitutes == LineOf(lines, "Consider these alternatives:")
        IN  /\ Len(lines) >= Len(template)
            /\ SubSeq(lines, 1, Len(template)) = template
            /\ InOrder(named, cross)
            /\ InOrder(cross, hidden)
            /\ InOrder(hidden, substitutes)
            /\ substitutes # 0 => analysis.risk_level \in {"high", "moderate"}

\* the level the report gives to the high- and moderate-risk lists of an
\* allergen result
ReportLevelOf(result) ==
    IF Get(result, "high_risk_allergens") # <<>> THEN "high"
    ELSE IF Get(result, "moderate_risk_allergens") # <<>> THEN "medium"
    ELSE "low"

\* C29: the level of a report is the one its allergen result's high- and
\* moderate-risk lists give; the report built from the same allergen result and
\* any other result of check_interactions has the same level; an allergen
\* result of level unknown or safe is reported as low risk, safe to consume.
C29_ReportLevelIgnoresMedications ==
    (report.called /\ "risk_level" \in DOMAIN report) =>
        /\ report.risk_level = ReportLevelOf(analysis)
        /\ \A meds \in DistinctSeqsUpTo(MedCheckMedications, 1),
              ings \in SeqsUpTo(MedCheckIngredients, 1) :
               generate_analysis_report(analysis,
                   check_interactions(current_interactions, ings, meds)).risk_level
                   = report.risk_level
        /\ analysis.risk_level \in {"unknown", "safe"} =>
               /\ report.risk_level = "low"
               /\ report.headline = "LOW RISK - SAFE TO CONSUME"

\* a report of low risk built from a medication result with a high-risk
\* interaction and an allergen result of level safe
C29_Witness ==
    /\ report.called /\ "risk_level" \in DOMAIN report
    /\ med_result.called /\ med_result.high_risk_interactions # <<>>
    /\ analysis.risk_level = "safe"
    /\ report.headline = "LOW RISK - SAFE TO CONSUME"

\* the ids of the entries of a queue or history
IdsOf(list) == {list[i].id : i \in 1..Len(list)}

\* how many entries of the list have the id
Occurrences(list, id) == Cardinality({i \in 1..Len(list) : list[i].id = id})

\* every submitted request is in exactly one of the queue and the history; the
\* queue holds pending requests that are no emergencies; the history holds
\* emergencies as they were requested and cancelled non-emergencies
ConsultationsFiled ==
    /\ \A k \in 1..Len(submitted) :
           Occurrences(consultation_queue, submitted[k])
               + Occurrences(consultation_history, submitted[k]) = 1
    /\ IdsOf(consultation_queue) \cup IdsOf(consultation_history)
           = SeqToSet(submitted)
    /\ \A i \in 1..Len(consultation_queue) :
           /\ consultation_queue[i].status = "pending"
           /\ consultation_queue[i].type # "emergency"
    /\ \A i \in 1..Len(consultation_history) :
           IF consultation_history[i].type = "emergency"
           THEN /\ consultation_history[i].status = "pending"
                /\ consultation_history[i].resolution = "emergency_protocol_initiated"
           ELSE consultation_history[i].status = "cancelled"

\* what a call does to the queue and the history
ConsultationStep ==
    /\ consultation_call'.op = "request" =>
           IF consultation_call'.returned.status = "emergency_initiated"
           THEN /\ consultation_queue' = consultation_queue
                /\ Len(consultation_history') = Len(consultation_history) + 1
                /\ consultation_history'[Len(consultation_history')].id
                       = consultation_call'.returned.consultation_id
           ELSE /\ consultation_history' = consultation_history
                /\ Len(consultation_queue') = Len(consultation_queue) + 1
                /\ consultation_queue'[Len(consultation_queue')].id
                       = consultation_call'.returned.consultation_id
    /\ consultation_call'.op = "cancel" =>
           LET id == consultation_call'.consultation_id
           IN  /\ consultation_call'.returned = (id \in IdsOf(consultation_queue))
               /\ ~consultation_call'.returned =>
                      /\ consultation_queue' = consultation_queue
                      /\ consultation_history' = consultation_history
               /\ consultation_call'.returned =>
                      /\ id \notin IdsOf(consultation_queue')
                      /\ consultation_history'[Len(consultation_history')].id = id
                      /\ consultation_history'[Len(consultation_history')].status
                             = "cancelled"

\* C30: as long as the ids of the requests are distinct, after every
\* request_consultation or cancel_consultation call every submitted request is
\* in exactly one of the queue and the history; an emergency request goes to the
\* history at request time and never to the queue; another request is pending
\* in the queue until a cancel with its id moves it to the history as
\* cancelled; a cancel with an id that is not in the queue returns False and
\* changes neither the queue nor the history.
C30_RequestInQueueOrHistory ==
    [][NoRepeats(submitted') => (ConsultationsFiled' /\ ConsultationStep)]_vars

\* three requests with distinct ids: an emergency in the history, a cancelled
\* one in the history, one pending in the queue, and a cancel that failed
C30_Witness ==
    /\ Len(submitted) = 3 /\ NoRepeats(submitted)
    /\ Len(consultation_queue) = 1
    /\ \E i, j \in 1..Len(consultation_history) :
           /\ consultation_history[i].type = "emergency"
           /\ consultation_history[j].status = "cancelled"
    /\ consultation_call.op = "cancel" /\ ~consultation_call.returned

====
